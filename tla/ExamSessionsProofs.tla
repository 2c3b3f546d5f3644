------------------------- MODULE ExamSessionsProofs -------------------------
(***************************************************************************)
(* Theorems about ExamSessions, for any users, sessions, requests and      *)
(* exams, and any durations.                                               *)
(***************************************************************************)
EXTENDS ExamSessions, FiniteSetTheorems, TLAPS

-----------------------------------------------------------------------------
\* What a start makes of the row that was read.
LEMMA StartedRow ==
  ASSUME NEW row \in Rows, NEW exam \in Exams, NEW t \in Nat
  PROVE  /\ Started(row, exam, t) \in Rows
         /\ Started(row, exam, t).user = row.user
         /\ Started(row, exam, t).is_active = row.is_active
         /\ Started(row, exam, t).is_exam_active = TRUE
         /\ Started(row, exam, t).exam_id = exam
         /\ Started(row, exam, t).exam_started_at = t
         /\ Started(row, exam, t).expires_at =
              IF row.expires_at < t + MaxDuration THEN t + MaxDuration ELSE row.expires_at
<1> DEFINE expiry == IF row.expires_at < t + MaxDuration THEN t + MaxDuration ELSE row.expires_at
<1>1. expiry \in Nat
  BY TimesAreNat DEF Rows
<1>2. Started(row, exam, t) =
        [row EXCEPT !.is_exam_active = TRUE, !.exam_id = exam,
                    !.exam_started_at = t, !.expires_at = expiry]
  BY DEF Started
<1> HIDE DEF expiry
<1>3. /\ Started(row, exam, t) \in Rows
      /\ Started(row, exam, t).expires_at = expiry
      /\ Started(row, exam, t).user = row.user
      /\ Started(row, exam, t).is_active = row.is_active
      /\ Started(row, exam, t).is_exam_active = TRUE
      /\ Started(row, exam, t).exam_id = exam
      /\ Started(row, exam, t).exam_started_at = t
  BY <1>1, <1>2 DEF Rows
<1> QED
  BY <1>3 DEF expiry

\* What an end makes of it.
LEMMA EndedRow ==
  ASSUME NEW row \in Rows
  PROVE  /\ Ended(row) \in Rows
         /\ Ended(row).user = row.user
         /\ Ended(row).is_active = row.is_active
         /\ Ended(row).is_exam_active = FALSE
         /\ Ended(row).exam_id = NoExam
         /\ Ended(row).exam_started_at = row.exam_started_at
         /\ Ended(row).expires_at = row.expires_at
BY DEF Ended, Rows

\* An idle request.
LEMMA NoRequestIsARequest == NoRow \in Rows /\ NoRequest \in RequestStates /\ NoRequest.pc = "idle"
<1>1. NoRow \in Rows
  BY DEF NoRow, Rows
<1> QED
  BY <1>1 DEF NoRequest, RequestStates

\* What is left in the table after an UPDATE is a row.
LEMMA WrittenIsRow ==
  ASSUME NEW old \in Rows, NEW read \in Rows, NEW new \in Rows
  PROVE  Written(old, read, new) \in Rows
BY DEF Written, Column, Rows

-----------------------------------------------------------------------------
\* A table without sessions, requests or events.
LEMMA InitEstablishesIndInv == Init => IndInv
<1> SUFFICES ASSUME Init PROVE IndInv
  OBVIOUS
<1> USE DEF Init
<1>1. NoRow \in Rows
  BY NoRequestIsARequest
<1>2. NoRequest \in RequestStates
  BY NoRequestIsARequest
<1>3. \A r \in Requests : requests[r].pc = "idle"
  BY DEF NoRequest
<1>4. TypeOK
  BY <1>1, <1>2, <1>3, TimesAreNat DEF TypeOK, Holds, Announced, NoRow
<1>5. RowsFit /\ NoExamBeforeItsEvent
  BY DEF RowsFit, NoExamBeforeItsEvent, NoRow
<1>6. RequestsAreExamRequests /\ FarExpiryIsLeast
  BY <1>3 DEF RequestsAreExamRequests, FarExpiryIsLeast
<1> QED
  BY <1>4, <1>5, <1>6 DEF IndInv

(***************************************************************************)
(* What RequestsAreExamRequests says of one request.                       *)
(***************************************************************************)
WellFormed(q) ==
  /\ q.session \in Sessions
  /\ q.read.user # NoUser
  /\ q.read.user = sessions[q.session].user
  /\ q.readAt <= now
  /\ q.read.exam_started_at <= q.readAt
  /\ q.pc \in {"check", "start"} => q.exam \in Exams
  /\ q.pc = "end" => q.exam = NoExam
  /\ q.pc \in {"publish", "commit"} =>
       \/ q.exam \in Exams /\ \E t \in (q.readAt + 1)..now : q.new = Started(q.read, q.exam, t)
       \/ q.exam = NoExam /\ q.new = Ended(q.read)
  /\ q.pc = "commit" /\ q.exam # NoExam => <<q.session, q.exam>> \in Announced

\* The invariant, one request at a time.
LEMMA RequestsAreWellFormed ==
  RequestsAreExamRequests
    <=> \A r \in Requests : requests[r].pc # "idle" => WellFormed(requests[r])
BY DEF RequestsAreExamRequests, WellFormed

\* A request that goes on with the row it has read, or ends without writing, keeps the
\* invariant.
LEMMA GoingOnKeepsIndInv ==
  ASSUME IndInv, NEW r \in Requests, NEW q \in RequestStates,
         requests' = [requests EXCEPT ![r] = q],
         UNCHANGED <<sessions, now>>,
         Announced \subseteq Announced',
         Announced' \subseteq Sessions \X Exams,
         \/ q.pc = "idle"
         \/ /\ requests[r].pc # "idle"
            /\ q.session = requests[r].session
            /\ q.read = requests[r].read
            /\ q.readAt = requests[r].readAt
            /\ WellFormed(q)'
            /\ \/ q.pc \notin {"publish", "commit"}
               \/ q.new = q.read
               \/ \A p \in Requests \ {r} : ~Holds(p, q.session)
  PROVE  IndInv'
<1> USE DEF IndInv, TypeOK
<1>1. /\ requests'[r] = q
      /\ \A p \in Requests \ {r} : requests'[p] = requests[p]
      /\ requests' \in [Requests -> RequestStates]
  OBVIOUS
<1>2. TypeOK'
  <2>1. \A s \in Sessions, p \in Requests \ {r} : Holds(p, s)' <=> Holds(p, s)
    BY <1>1 DEF Holds
  <2>2. \A s \in Sessions, p \in Requests \ {r} : ~(Holds(r, s)' /\ Holds(p, s)')
    BY <1>1, <2>1 DEF Holds
  <2> QED
    BY <1>1, <2>1, <2>2
<1>3. RequestsAreExamRequests'
  <2>1. \A p \in Requests \ {r} : requests'[p].pc # "idle" => WellFormed(requests[p])'
    BY <1>1, RequestsAreWellFormed DEF WellFormed
  <2>2. requests'[r].pc # "idle" => WellFormed(requests[r])'
    BY <1>1
  <2> QED
    BY <2>1, <2>2 DEF RequestsAreExamRequests, WellFormed
<1>4. FarExpiryIsLeast'
  <2>1. \A p \in Requests : requests'[p].pc # "idle" =>
          /\ requests[p].pc # "idle"
          /\ requests'[p].session = requests[p].session
          /\ requests'[p].read = requests[p].read
          /\ requests'[p].readAt = requests[p].readAt
    BY <1>1
  <2> QED
    BY <2>1 DEF FarExpiryIsLeast
<1>5. RowsFit' /\ NoExamBeforeItsEvent'
  BY DEF RowsFit, NoExamBeforeItsEvent
<1> QED
  BY <1>2, <1>3, <1>4, <1>5

-----------------------------------------------------------------------------
(***************************************************************************)
(* The two commits.  The crux is the expiry of a start: if the object says *)
(* that it need not be pushed, then what was read is further ahead than an *)
(* exam lasts, and FarExpiryIsLeast says that the row has not fallen below *)
(* it since.                                                               *)
(***************************************************************************)
\* A start that commits leaves its own time in the row, and an expiry that fits it.
LEMMA StartFits ==
  ASSUME IndInv, NEW r \in Requests, requests[r].pc = "commit", requests[r].exam \in Exams,
         NEW t \in (requests[r].readAt + 1)..now,
         requests[r].new = Started(requests[r].read, requests[r].exam, t),
         NEW row, row = Written(sessions[requests[r].session], requests[r].read, requests[r].new)
  PROVE  /\ row.exam_started_at = t
         /\ t \in Nat \ {0}
         /\ t <= now
         /\ row.expires_at >= t + MaxDuration
         /\ \/ row.expires_at = sessions[requests[r].session].expires_at
            \/ /\ row.expires_at = t + MaxDuration
               /\ row.expires_at > requests[r].read.expires_at
<1> USE DEF IndInv, TypeOK
<1> DEFINE q == requests[r]
           old == sessions[q.session]
<1>1. WellFormed(q)
  BY RequestsAreWellFormed
<1>2. /\ q.read \in Rows /\ q.readAt \in Nat /\ q.exam \in Exams
      /\ old \in Rows
  BY <1>1 DEF RequestStates, WellFormed
<1>3. /\ t \in Nat \ {0}
      /\ t <= now
      /\ q.readAt < t
      /\ q.readAt + MaxDuration < t + MaxDuration
      /\ q.readAt + MaxDuration \in Nat /\ t + MaxDuration \in Nat
  BY <1>2, TimesAreNat
<1>4. /\ q.new.exam_started_at = t
      /\ q.new.expires_at =
           IF q.read.expires_at < t + MaxDuration THEN t + MaxDuration ELSE q.read.expires_at
  <2>1. q.new = Started(q.read, q.exam, t)
    OBVIOUS
  <2>2. q.read \in Rows /\ q.exam \in Exams /\ t \in Nat
    BY <1>2, <1>3
  <2> HIDE DEF q, IndInv, TypeOK
  <2>3. /\ Started(q.read, q.exam, t).exam_started_at = t
        /\ Started(q.read, q.exam, t).expires_at =
             IF q.read.expires_at < t + MaxDuration THEN t + MaxDuration ELSE q.read.expires_at
    BY ZenonT(30), <2>2, StartedRow
  <2> QED
    BY <2>1, <2>3
<1>5. /\ q.read.exam_started_at \in Nat /\ q.read.exam_started_at <= q.readAt
      /\ q.read.expires_at \in Nat /\ old.expires_at \in Nat
  BY <1>1, <1>2 DEF WellFormed, Rows
<1>6. row.exam_started_at = t
  BY <1>2, <1>3, <1>4, <1>5 DEF Written, Column
<1>7. q.read.expires_at > q.readAt + MaxDuration => old.expires_at >= q.read.expires_at
  BY <1>1 DEF FarExpiryIsLeast, WellFormed
<1>8. row.expires_at =
        IF q.read.expires_at < t + MaxDuration THEN t + MaxDuration ELSE old.expires_at
  BY <1>3, <1>4, <1>5 DEF Written, Column
<1> QED
  BY <1>3, <1>5, <1>6, <1>7, <1>8

\* A commit changes the row of its session only; it ends with no request.
LEMMA CommitShape ==
  ASSUME IndInv, NEW r \in Requests, Commit(r)
  PROVE  /\ sessions' \in [Sessions -> Rows]
         /\ requests' \in [Requests -> RequestStates]
         /\ requests'[r].pc = "idle"
         /\ \A p \in Requests \ {r} : requests'[p] = requests[p]
         /\ \A x \in Sessions : /\ sessions'[x].user = sessions[x].user
                               /\ sessions'[x].is_active = sessions[x].is_active
         /\ \A x \in Sessions \ {requests[r].session} : sessions'[x] = sessions[x]
         /\ sessions'[requests[r].session] =
              Written(sessions[requests[r].session], requests[r].read, requests[r].new)
         /\ UNCHANGED <<Announced, now>>
<1> USE DEF IndInv, TypeOK, Commit
<1>1. WellFormed(requests[r])
  BY RequestsAreWellFormed
<1>2. /\ requests[r].session \in Sessions /\ requests[r].read \in Rows
      /\ requests[r].new \in Rows
  BY <1>1 DEF WellFormed, RequestStates
<1>3. Written(sessions[requests[r].session], requests[r].read, requests[r].new) \in Rows
  BY <1>2, WrittenIsRow
<1>4. Written(sessions[requests[r].session], requests[r].read, requests[r].new).user
        = sessions[requests[r].session].user
  BY DEF Written
<1>5. NoRequest \in RequestStates /\ NoRequest.pc = "idle"
  BY NoRequestIsARequest
<1>6. requests[r].new.is_active = requests[r].read.is_active
  <2>1. ASSUME requests[r].exam \in Exams, NEW t \in (requests[r].readAt + 1)..now,
               requests[r].new = Started(requests[r].read, requests[r].exam, t)
        PROVE  requests[r].new.is_active = requests[r].read.is_active
    <3>1. t \in Nat
      BY DEF RequestStates
    <3>2. Started(requests[r].read, requests[r].exam, t).is_active = requests[r].read.is_active
      BY ZenonT(30), <1>2, <2>1, <3>1, StartedRow
    <3> QED
      BY <2>1, <3>2
  <2>2. Ended(requests[r].read).is_active = requests[r].read.is_active
    BY <1>2, EndedRow
  <2> QED
    BY <1>1, <2>1, <2>2 DEF WellFormed
<1>7. Written(sessions[requests[r].session], requests[r].read, requests[r].new).is_active
        = sessions[requests[r].session].is_active
  BY <1>6 DEF Written, Column
<1> QED
  BY <1>2, <1>3, <1>4, <1>5, <1>7 DEF Respond, Announced

\* The commit of a start or of an end keeps the invariant.
LEMMA CommitKeepsIndInv ==
  ASSUME IndInv, NEW r \in Requests, Commit(r)
  PROVE  IndInv'
<1> USE DEF IndInv, TypeOK
<1> DEFINE q == requests[r]
           s == q.session
           old == sessions[s]
           row == Written(old, q.read, q.new)
<1>1. WellFormed(q) /\ q.pc = "commit"
  BY RequestsAreWellFormed DEF Commit
<1>2. /\ s \in Sessions /\ old \in Rows /\ q.read \in Rows /\ q.readAt \in Nat
      /\ row \in Rows
  BY <1>1, CommitShape DEF WellFormed, RequestStates
<1>3. /\ sessions' \in [Sessions -> Rows]
      /\ requests' \in [Requests -> RequestStates]
      /\ requests'[r].pc = "idle"
      /\ \A p \in Requests \ {r} : requests'[p] = requests[p]
      /\ \A x \in Sessions : /\ sessions'[x].user = sessions[x].user
                            /\ sessions'[x].is_active = sessions[x].is_active
      /\ \A x \in Sessions \ {s} : sessions'[x] = sessions[x]
      /\ sessions'[s] = row
      /\ UNCHANGED <<Announced, now>>
  BY CommitShape
<1>4. row.exam_started_at <= now => TypeOK'
  <2>1. \A p \in Requests, x \in Sessions : Holds(p, x)' => p # r /\ Holds(p, x)
    BY <1>3 DEF Holds
  <2> HIDE DEF row
  <2> QED
    BY <1>2, <1>3, <2>1
<1>5. RequestsAreExamRequests'
  BY <1>3 DEF RequestsAreExamRequests
<1>6. CASE q.exam \in Exams /\ \E t \in (q.readAt + 1)..now : q.new = Started(q.read, q.exam, t)
  <2>1. PICK t \in (q.readAt + 1)..now : q.new = Started(q.read, q.exam, t)
    BY <1>6
  <2>2. /\ row.exam_started_at = t
        /\ t \in Nat \ {0} /\ t <= now
        /\ row.expires_at >= t + MaxDuration
        /\ \/ row.expires_at = old.expires_at
           \/ row.expires_at = t + MaxDuration /\ row.expires_at > q.read.expires_at
    BY <1>1, <1>6, <2>1, StartFits
  <2>3. q.new.exam_id = q.exam
    <3>1. q.read \in Rows /\ q.exam \in Exams /\ t \in Nat
      BY <1>2, <1>6, <2>2
    <3> HIDE DEF q, IndInv, TypeOK
    <3>2. Started(q.read, q.exam, t).exam_id = q.exam
      BY <3>1, StartedRow
    <3> QED
      BY <2>1, <3>2
  <2>4. row.exam_id \in {old.exam_id, q.exam} /\ <<s, q.exam>> \in Announced
    BY <1>1, <1>6, <2>3, NoneIsAValue DEF Written, Column, WellFormed
  <2> HIDE DEF row
  <2>5. RowsFit'
    BY <1>2, <1>3, <2>2 DEF RowsFit
  <2>6. NoExamBeforeItsEvent'
    BY <1>2, <1>3, <2>4 DEF NoExamBeforeItsEvent
  <2>7. FarExpiryIsLeast'
    <3> SUFFICES ASSUME NEW x \in Sessions, NEW p \in Requests \ {r},
                        requests[p].pc # "idle", requests[p].session = x
                 PROVE  /\ sessions'[x].expires_at > now + MaxDuration =>
                             requests[p].read.expires_at >= sessions'[x].expires_at
                        /\ requests[p].read.expires_at > requests[p].readAt + MaxDuration =>
                             /\ sessions'[x].expires_at >= requests[p].read.expires_at
                             /\ \A o \in Requests :
                                  requests[o].pc # "idle" /\ requests[o].session = x =>
                                    requests[o].read.expires_at >= requests[p].read.expires_at
      BY <1>3 DEF FarExpiryIsLeast
    <3>1. /\ sessions[x].expires_at > now + MaxDuration =>
               requests[p].read.expires_at >= sessions[x].expires_at
          /\ requests[p].read.expires_at > requests[p].readAt + MaxDuration =>
               /\ sessions[x].expires_at >= requests[p].read.expires_at
               /\ \A o \in Requests : requests[o].pc # "idle" /\ requests[o].session = x =>
                    requests[o].read.expires_at >= requests[p].read.expires_at
      BY DEF FarExpiryIsLeast
    <3>2. CASE x # s \/ row.expires_at = old.expires_at
      BY <1>3, <3>1, <3>2
    <3>3. CASE x = s /\ row.expires_at = t + MaxDuration /\ row.expires_at > q.read.expires_at
      <4>1. row.expires_at <= now + MaxDuration
        BY <2>2, <3>3, TimesAreNat
      <4>2. q.pc # "idle" /\ q.session = x
        BY <1>1, <3>3
      <4>3. /\ row.expires_at \in Nat /\ q.read.expires_at \in Nat
            /\ requests[p].read.expires_at \in Nat
        BY <1>2 DEF RequestStates, Rows
      <4>4. requests[p].read.expires_at > requests[p].readAt + MaxDuration =>
              row.expires_at >= requests[p].read.expires_at
        BY <3>1, <3>3, <4>2, <4>3
      <4>5. now + MaxDuration \in Nat
        BY TimesAreNat
      <4> QED
        BY <1>3, <3>1, <3>3, <4>1, <4>3, <4>4, <4>5
    <3> QED
      BY <2>2, <3>2, <3>3
  <2> QED
    BY <1>4, <1>5, <2>2, <2>5, <2>6, <2>7
<1>7. CASE q.exam = NoExam /\ q.new = Ended(q.read)
  <2>1. /\ row.is_exam_active \in {old.is_exam_active, FALSE}
        /\ row.exam_id \in {old.exam_id, NoExam}
        /\ row.exam_started_at = old.exam_started_at
        /\ row.expires_at = old.expires_at
    <3>1. /\ q.new.is_exam_active = FALSE
          /\ q.new.exam_id = NoExam
          /\ q.new.exam_started_at = q.read.exam_started_at
          /\ q.new.expires_at = q.read.expires_at
      <4> HIDE DEF q, IndInv, TypeOK
      <4> QED
        BY ZenonT(30), <1>2, <1>7, EndedRow
    <3> QED
      BY <3>1 DEF Written, Column
  <2> HIDE DEF row
  <2>2. RowsFit'
    BY ZenonT(30), <1>2, <1>3, <2>1 DEF RowsFit
  <2>3. NoExamBeforeItsEvent'
    BY <1>2, <1>3, <2>1 DEF NoExamBeforeItsEvent
  <2>4. FarExpiryIsLeast'
    <3>1. \A x \in Sessions : sessions'[x].expires_at = sessions[x].expires_at
      BY <1>2, <1>3, <2>1
    <3> QED
      BY <1>3, <3>1 DEF FarExpiryIsLeast
  <2> QED
    BY <1>2, <1>4, <1>5, <2>1, <2>2, <2>3, <2>4
<1> QED
  BY <1>1, <1>6, <1>7 DEF WellFormed

-----------------------------------------------------------------------------
\* The SELECT of the bearer check: a request that starts has read a row that is there.
LEMMA BeginKeepsIndInv ==
  ASSUME IndInv, NEW r \in Requests, NEW s \in Sessions,
         NEW pc, NEW exam,
         \/ pc = "check" /\ exam \in Exams
         \/ pc = "end" /\ exam = NoExam,
         Begin(r, s, pc, exam)
  PROVE  IndInv'
<1> USE DEF IndInv, TypeOK, Begin
<1>0. PICK q : q = [NoRequest EXCEPT !.pc = pc, !.session = s, !.exam = exam,
                                     !.read = sessions[s], !.new = sessions[s], !.readAt = now]
  OBVIOUS
<1>1. /\ q.pc = pc /\ q.session = s /\ q.exam = exam
      /\ q.read = sessions[s] /\ q.readAt = now
      /\ q \in RequestStates
  <2>1. NoRequest \in RequestStates
    BY NoRequestIsARequest
  <2>2. now \in Nat /\ sessions[s] \in Rows
    OBVIOUS
  <2> QED
    BY <1>0, <2>1, <2>2 DEF RequestStates
<1>2. requests' = [requests EXCEPT ![r] = q] /\ UNCHANGED <<sessions, Announced, now>>
  BY <1>0 DEF Announced
<1>3. /\ requests'[r] = q
      /\ \A p \in Requests \ {r} : requests'[p] = requests[p]
      /\ requests' \in [Requests -> RequestStates]
  BY <1>1, <1>2
<1>4. TypeOK'
  <2>1. \A x \in Sessions : ~Holds(r, x)'
    BY <1>1, <1>3 DEF Holds
  <2>2. \A p \in Requests \ {r}, x \in Sessions : Holds(p, x)' <=> Holds(p, x)
    BY <1>3 DEF Holds
  <2> QED
    BY <1>2, <1>3, <2>1, <2>2
<1>5. RequestsAreExamRequests'
  <2>1. /\ sessions[s].user # NoUser
        /\ sessions[s].exam_started_at <= now
    BY DEF RowsFit
  <2>2. WellFormed(q)
    BY <1>1, <2>1 DEF WellFormed
  <2>3. \A p \in Requests \ {r} : requests'[p].pc # "idle" => WellFormed(requests[p])'
    BY <1>2, <1>3, RequestsAreWellFormed DEF WellFormed
  <2>4. requests'[r].pc # "idle" => WellFormed(requests[r])'
    BY <1>2, <1>3, <2>2 DEF WellFormed
  <2> QED
    BY <2>3, <2>4 DEF RequestsAreExamRequests, WellFormed
<1>6. FarExpiryIsLeast'
  <2>1. sessions[s].expires_at \in Nat /\ now + MaxDuration \in Nat
    BY TimesAreNat DEF Rows
  <2>2. \A p \in Requests \ {r} : requests[p].pc # "idle" /\ requests[p].session = s =>
          /\ sessions[s].expires_at > now + MaxDuration =>
               requests[p].read.expires_at >= q.read.expires_at
          /\ requests[p].read.expires_at > requests[p].readAt + MaxDuration =>
               q.read.expires_at >= requests[p].read.expires_at
    BY <1>1 DEF FarExpiryIsLeast
  <2> QED
    BY <1>1, <1>2, <1>3, <2>1, <2>2 DEF FarExpiryIsLeast
<1>7. RowsFit' /\ NoExamBeforeItsEvent'
  BY <1>2 DEF RowsFit, NoExamBeforeItsEvent
<1> QED
  BY <1>4, <1>5, <1>6, <1>7

\* A flush takes the row from nobody.
LEMMA FlushKeepsIndInv ==
  ASSUME IndInv, NEW r \in Requests, NEW new \in Rows,
         requests[r].pc # "idle",
         Flush(r, new),
         \/ /\ requests[r].exam \in Exams
            /\ \E t \in (requests[r].readAt + 1)..now :
                 new = Started(requests[r].read, requests[r].exam, t)
         \/ requests[r].exam = NoExam /\ new = Ended(requests[r].read)
  PROVE  IndInv'
<1>0. PICK q : q = [requests[r] EXCEPT !.pc = "publish", !.new = new]
  OBVIOUS
<1>1. requests[r] \in RequestStates
  BY DEF IndInv, TypeOK
<1>2. /\ q \in RequestStates
      /\ q.pc = "publish" /\ q.new = new
      /\ q.session = requests[r].session /\ q.exam = requests[r].exam
      /\ q.read = requests[r].read /\ q.readAt = requests[r].readAt
  BY <1>0, <1>1 DEF RequestStates
<1>3. /\ requests' = [requests EXCEPT ![r] = q]
      /\ UNCHANGED <<sessions, Announced, now>>
  BY <1>0 DEF Flush, Announced, IndInv, TypeOK
<1>4. WellFormed(requests[r])
  BY RequestsAreWellFormed DEF IndInv
<1>5. WellFormed(q)
  BY <1>2, <1>4 DEF WellFormed
<1>6. WellFormed(q)'
  BY <1>3, <1>5 DEF WellFormed
<1>7. q.new = q.read \/ \A p \in Requests \ {r} : ~Holds(p, q.session)
  BY <1>2 DEF Flush, Held
<1>8. Announced \subseteq Announced' /\ Announced' \subseteq Sessions \X Exams
  BY <1>3 DEF IndInv, TypeOK
<1> QED
  BY <1>2, <1>3, <1>6, <1>7, <1>8, GoingOnKeepsIndInv

\* Every action preserves the inductive invariant.
LEMMA NextPreservesIndInv ==
  ASSUME IndInv, [Next]_vars
  PROVE  IndInv'
<1> USE DEF IndInv, TypeOK
<1>0. NoRow \in Rows /\ NoRequest \in RequestStates /\ NoRequest.pc = "idle"
  BY NoRequestIsARequest
<1>1. ASSUME NEW u \in Users, NEW s \in Sessions, OpenSession(u, s)
      PROVE  IndInv'
  <2> DEFINE new == [NoRow EXCEPT !.user = u, !.is_active = TRUE, !.expires_at = now + Lifetime]
  <2>1. /\ new \in Rows
        /\ new.user = u /\ new.is_exam_active = FALSE
        /\ new.exam_started_at = 0 /\ new.exam_id = NoExam
    <3>1. now + Lifetime \in Nat
      BY TimesAreNat
    <3>2. /\ new \in Rows
          /\ new.user = u
          /\ new.is_exam_active = NoRow.is_exam_active
          /\ new.exam_started_at = NoRow.exam_started_at
          /\ new.exam_id = NoRow.exam_id
      BY <1>0, <3>1 DEF Rows
    <3> QED
      BY <3>2 DEF NoRow
  <2>2. /\ sessions' = [sessions EXCEPT ![s] = new]
        /\ UNCHANGED <<requests, Announced, now>>
        /\ sessions[s].user = NoUser
    BY <1>1 DEF OpenSession, NoRow, Announced
  <2> HIDE DEF new
  <2>3. /\ sessions'[s] = new
        /\ \A x \in Sessions \ {s} : sessions'[x] = sessions[x]
        /\ sessions' \in [Sessions -> Rows]
    BY <2>1, <2>2
  <2>4. \A r \in Requests : requests[r].pc # "idle" => requests[r].session \in Sessions \ {s}
    BY <2>2 DEF RequestsAreExamRequests
  <2>5. TypeOK'
    <3>1. \A x \in Sessions : sessions'[x].exam_started_at <= now
      BY <2>1, <2>3
    <3>2. \A x \in Sessions, r \in Requests : Holds(r, x)' <=> Holds(r, x)
      BY <2>2 DEF Holds
    <3> QED
      BY <2>2, <2>3, <3>1, <3>2
  <2>6. RowsFit' /\ NoExamBeforeItsEvent'
    BY <2>1, <2>2, <2>3, NoneIsAValue DEF RowsFit, NoExamBeforeItsEvent
  <2>7. RequestsAreExamRequests' /\ FarExpiryIsLeast'
    BY <2>2, <2>3, <2>4 DEF RequestsAreExamRequests, FarExpiryIsLeast
  <2> QED
    BY <2>5, <2>6, <2>7
<1>2. ASSUME NEW s \in Sessions, CloseSession(s)
      PROVE  IndInv'
  <2>1. /\ sessions' \in [Sessions -> Rows]
        /\ \A x \in Sessions :
             /\ sessions'[x].user = sessions[x].user
             /\ sessions'[x].is_active => sessions[x].is_active
             /\ sessions'[x].is_exam_active = sessions[x].is_exam_active
             /\ sessions'[x].exam_id = sessions[x].exam_id
             /\ sessions'[x].exam_started_at = sessions[x].exam_started_at
             /\ sessions'[x].expires_at = sessions[x].expires_at
    BY <1>2 DEF CloseSession, Rows
  <2>2. UNCHANGED <<requests, Announced, now>>
    BY <1>2 DEF CloseSession, Announced
  <2>3. TypeOK'
    BY <2>1, <2>2 DEF Holds
  <2>4. RowsFit' /\ NoExamBeforeItsEvent'
    BY <2>1, <2>2 DEF RowsFit, NoExamBeforeItsEvent
  <2>5. RequestsAreExamRequests' /\ FarExpiryIsLeast'
    BY <2>1, <2>2 DEF RequestsAreExamRequests, FarExpiryIsLeast
  <2> QED
    BY <2>3, <2>4, <2>5
<1>3. ASSUME NEW r \in Requests, NEW s \in Sessions,
             BeginEnd(r, s) \/ \E exam \in Exams : BeginStart(r, s, exam)
      PROVE  IndInv'
  BY <1>3, BeginKeepsIndInv DEF BeginStart, BeginEnd
<1>4. ASSUME NEW r \in Requests, Respond(r), UNCHANGED <<sessions, Announced, now>>
      PROVE  IndInv'
  <2>1. requests' = [requests EXCEPT ![r] = NoRequest]
    BY <1>4 DEF Respond
  <2> QED
    BY <1>0, <1>4, <2>1, GoingOnKeepsIndInv
<1>5. ASSUME NEW r \in Requests, CheckNoExam(r)
      PROVE  IndInv'
  <2>1. CASE Respond(r)
    BY <1>4, <1>5, <2>1 DEF CheckNoExam, Announced
  <2>2. CASE requests' = [requests EXCEPT ![r].pc = "start"]
    <3>0. PICK q : q = [requests[r] EXCEPT !.pc = "start"]
      OBVIOUS
    <3>1. /\ requests' = [requests EXCEPT ![r] = q]
          /\ q \in RequestStates
          /\ q.pc = "start"
          /\ q.session = requests[r].session /\ q.exam = requests[r].exam
          /\ q.read = requests[r].read /\ q.readAt = requests[r].readAt
      BY <2>2, <3>0 DEF RequestStates
    <3>2. requests[r].pc = "check" /\ UNCHANGED <<sessions, Announced, now>>
      BY <1>5 DEF CheckNoExam, Announced
    <3>3. WellFormed(requests[r])
      BY <3>2, RequestsAreWellFormed
    <3>4. WellFormed(q)'
      BY <3>1, <3>2, <3>3 DEF WellFormed
    <3> QED
      BY <3>1, <3>2, <3>4, GoingOnKeepsIndInv
  <2> QED
    BY <1>5, <2>1, <2>2 DEF CheckNoExam, Announced
<1>6. ASSUME NEW r \in Requests, FlushStart(r)
      PROVE  IndInv'
  <2>1. PICK t \in (requests[r].readAt + 1)..now :
               Flush(r, Started(requests[r].read, requests[r].exam, t))
    BY <1>6 DEF FlushStart
  <2>2. requests[r].pc = "start" /\ requests[r].exam \in Exams
    BY <1>6 DEF FlushStart, RequestsAreExamRequests
  <2>3. requests[r].read \in Rows /\ t \in Nat
    BY DEF RequestStates
  <2>4. Started(requests[r].read, requests[r].exam, t) \in Rows
    BY <2>2, <2>3, StartedRow
  <2> QED
    BY <2>1, <2>2, <2>4, FlushKeepsIndInv
<1>7. ASSUME NEW r \in Requests, FlushEnd(r)
      PROVE  IndInv'
  <2>1. requests[r].pc = "end" /\ requests[r].exam = NoExam
    BY <1>7 DEF FlushEnd, RequestsAreExamRequests
  <2>2. requests[r].read \in Rows
    BY DEF RequestStates
  <2>3. Ended(requests[r].read) \in Rows
    BY <2>2, EndedRow
  <2> QED
    BY <1>7, <2>1, <2>3, FlushKeepsIndInv DEF FlushEnd
<1>8. ASSUME NEW r \in Requests, Publish(r)
      PROVE  IndInv'
  <2>0. PICK q : q = [requests[r] EXCEPT !.pc = "commit"]
    OBVIOUS
  <2>1. /\ requests' = [requests EXCEPT ![r] = q]
        /\ q \in RequestStates
        /\ q.pc = "commit"
        /\ q.session = requests[r].session /\ q.exam = requests[r].exam
        /\ q.read = requests[r].read /\ q.readAt = requests[r].readAt
        /\ q.new = requests[r].new
    BY <1>8, <2>0 DEF Publish, RequestStates
  <2>2. /\ requests[r].pc = "publish" /\ UNCHANGED <<sessions, now>>
        /\ Announced' = Announced \cup ({<<q.session, q.exam>>} \cap (Sessions \X Exams))
    BY <1>8, <2>1 DEF Publish, Announced
  <2>3. WellFormed(requests[r])
    BY <2>2, RequestsAreWellFormed
  <2>4. WellFormed(q)'
    BY <2>1, <2>2, <2>3 DEF WellFormed
  <2>5. Announced \subseteq Announced' /\ Announced' \subseteq Sessions \X Exams
    BY <2>2
  <2>6. q.new = q.read \/ \A p \in Requests \ {r} : ~Holds(p, q.session)
    BY <2>1, <2>2, <2>3 DEF Holds, WellFormed
  <2> QED
    BY <2>1, <2>2, <2>4, <2>5, <2>6, GoingOnKeepsIndInv
<1>9. ASSUME NEW r \in Requests, Abort(r)
      PROVE  IndInv'
  BY <1>4, <1>9 DEF Abort, Announced
<1>10. CASE Tick
  <2>1. /\ now \in Nat /\ now' = now + 1 /\ now' \in 0..MaxTime
        /\ UNCHANGED <<sessions, requests, Announced>>
    BY <1>10, TimesAreNat DEF Tick, Announced
  <2>2. TypeOK' /\ NoExamBeforeItsEvent'
    BY <2>1 DEF Holds, NoExamBeforeItsEvent, Rows
  <2>3. RowsFit'
    BY <2>1 DEF RowsFit, Rows
  <2>4. RequestsAreExamRequests'
    <3>1. \A r \in Requests : requests[r].readAt \in Nat
      BY DEF RequestStates
    <3>2. \A r \in Requests : requests[r].pc # "idle" => WellFormed(requests[r])
      BY RequestsAreWellFormed
    <3>3. \A r \in Requests : requests[r].pc # "idle" => WellFormed(requests[r])'
      BY <2>1, <3>1, <3>2 DEF WellFormed
    <3> QED
      BY <2>1, <3>3 DEF RequestsAreExamRequests, WellFormed
  <2>5. FarExpiryIsLeast'
    <3>1. \A s \in Sessions :
            /\ sessions[s].expires_at \in Nat
            /\ sessions[s].expires_at > now' + MaxDuration =>
                 sessions[s].expires_at > now + MaxDuration
      BY <2>1, TimesAreNat DEF Rows
    <3> QED
      BY <2>1, <3>1 DEF FarExpiryIsLeast
  <2> QED
    BY <2>2, <2>3, <2>4, <2>5
<1>11. CASE UNCHANGED vars
  BY <1>11 DEF vars, Announced, Holds, RowsFit, RequestsAreExamRequests, FarExpiryIsLeast, NoExamBeforeItsEvent
<1> QED
  BY <1>1, <1>2, <1>3, <1>5, <1>6, <1>7, <1>8, <1>9, <1>10, <1>11, CommitKeepsIndInv DEF Next

\* The invariant holds however the exam requests of all sessions overtake each other.
THEOREM Invariance == Spec => []IndInv
<1>1. Init => IndInv
  BY InitEstablishesIndInv
<1>2. IndInv /\ [Next]_vars => IndInv'
  BY NextPreservesIndInv
<1> QED
  BY <1>1, <1>2, PTL DEF Spec

\* Type correctness, and that a row is held by one request at most.
THEOREM TypeCorrectness == Spec => []TypeOK
<1>1. IndInv => TypeOK
  BY DEF IndInv
<1> QED
  BY <1>1, Invariance, PTL

\* A session does not expire before its exam can be over.
THEOREM SessionOutlastsExam == Spec => []ExamFitsSession
<1>1. IndInv => ExamFitsSession
  BY DEF IndInv, RowsFit, ExamFitsSession
<1> QED
  BY <1>1, Invariance, PTL

\* The table is never ahead of publish_event: whatever fails, an exam in it has been
\* announced, or the failure to announce it is in the log (redis.py, lines 42-43).
THEOREM ExamFollowsItsEvent == Spec => []NoExamBeforeItsEvent
<1>1. IndInv => NoExamBeforeItsEvent
  BY DEF IndInv
<1> QED
  BY <1>1, Invariance, PTL

\* No exam request reopens a session.
THEOREM NoExamReopens == Spec => ClosedStaysClosed
<1>1. ASSUME IndInv, [Next]_vars
      PROVE  [\A s \in Sessions : sessions[s].user # NoUser /\ ~sessions[s].is_active =>
                ~sessions'[s].is_active]_vars
  <2> SUFFICES ASSUME Next, NEW s \in Sessions,
                      sessions[s].user # NoUser, ~sessions[s].is_active
               PROVE  ~sessions'[s].is_active
    BY <1>1
  <2>1. ASSUME NEW u \in Users, NEW x \in Sessions, OpenSession(u, x)
        PROVE  sessions'[s] = sessions[s]
    BY <1>1, <2>1 DEF OpenSession, NoRow, IndInv, TypeOK
  <2>2. ASSUME NEW x \in Sessions, CloseSession(x)
        PROVE  ~sessions'[s].is_active
    BY <1>1, <2>2 DEF CloseSession, IndInv, TypeOK, Rows
  <2>3. ASSUME NEW r \in Requests, Commit(r)
        PROVE  ~sessions'[s].is_active
    BY <1>1, <2>3, CommitShape
  <2>4. CASE UNCHANGED sessions
    BY <2>4
  <2> QED
    BY <2>1, <2>2, <2>3, <2>4
    DEF Next, BeginStart, BeginEnd, Begin, CheckNoExam, FlushStart, FlushEnd, Flush,
        Publish, Abort, Tick
<1> QED
  BY <1>1, Invariance, PTL DEF Spec, ClosedStaysClosed

-----------------------------------------------------------------------------
(***************************************************************************)
(* How many exams a user can have.  The check admits a start only when     *)
(* there is none, so every exam that is counted later was past the check   *)
(* in one of the requests; a commit takes the request and leaves the exam. *)
(***************************************************************************)
\* Exams and admitted starts are finitely many.
LEMMA OverlapIsFinite ==
  ASSUME NEW u
  PROVE  /\ IsFiniteSet(ExamsOf(u)) /\ Cardinality(ExamsOf(u)) \in Nat
         /\ IsFiniteSet(Admitted(u)) /\ Cardinality(Admitted(u)) \in Nat
         /\ Cardinality(Admitted(u)) <= Cardinality(Requests)
<1>1. ExamsOf(u) \in SUBSET Sessions /\ Admitted(u) \in SUBSET Requests
  BY DEF ExamsOf, Admitted
<1>2. IsFiniteSet(ExamsOf(u)) /\ IsFiniteSet(Admitted(u))
  BY <1>1, RowsAndRequestsAreFinite, FS_Subset
<1>3. Cardinality(Admitted(u)) <= Cardinality(Requests)
  BY <1>1, RowsAndRequestsAreFinite, FS_Subset
<1> QED
  BY <1>2, <1>3, FS_CardinalityType

\* After the step they are, too.
LEMMA OverlapIsFiniteAfter ==
  ASSUME NEW u
  PROVE  /\ IsFiniteSet(ExamsOf(u)') /\ Cardinality(ExamsOf(u)') \in Nat
         /\ IsFiniteSet(Admitted(u)') /\ Cardinality(Admitted(u)') \in Nat
         /\ Cardinality(Admitted(u)') <= Cardinality(Requests)
<1>1. ExamsOf(u)' \in SUBSET Sessions /\ Admitted(u)' \in SUBSET Requests
  BY DEF ExamsOf, Admitted
<1>2. IsFiniteSet(ExamsOf(u)') /\ IsFiniteSet(Admitted(u)')
  BY <1>1, RowsAndRequestsAreFinite, FS_Subset
<1>3. Cardinality(Admitted(u)') <= Cardinality(Requests)
  BY <1>1, RowsAndRequestsAreFinite, FS_Subset
<1> QED
  BY <1>2, <1>3, FS_CardinalityType

\* What no step adds to only shrinks.
LEMMA ShrinkingKeepsOverlap ==
  ASSUME NEW u,
         Cardinality(ExamsOf(u)) + Cardinality(Admitted(u)) <= Cardinality(Requests),
         ExamsOf(u)' \subseteq ExamsOf(u),
         Admitted(u)' \subseteq Admitted(u)
  PROVE  Cardinality(ExamsOf(u)') + Cardinality(Admitted(u)') <= Cardinality(Requests)
<1>1. /\ Cardinality(ExamsOf(u)') <= Cardinality(ExamsOf(u))
      /\ Cardinality(Admitted(u)') <= Cardinality(Admitted(u))
  BY OverlapIsFinite, FS_Subset
<1>2. Cardinality(Requests) \in Nat
  BY RowsAndRequestsAreFinite, FS_CardinalityType
<1> QED
  BY <1>1, <1>2, OverlapIsFinite, OverlapIsFiniteAfter

(***************************************************************************)
(* What a step does to a user's exams and to the starts that are past the  *)
(* check: a commit adds one exam, of such a start; a check that finds no   *)
(* exam adds a start; every other step only takes away.                    *)
(***************************************************************************)
Shrinks(u) == ExamsOf(u)' \subseteq ExamsOf(u) /\ Admitted(u)' \subseteq Admitted(u)

Admits(u) == ExamsOf(u) = {} /\ ExamsOf(u)' = {}

AddsExam(u) ==
  \E r \in Admitted(u), s \in Sessions :
    /\ Admitted(u)' = Admitted(u) \ {r}
    /\ ExamsOf(u)' \subseteq ExamsOf(u) \cup {s}

\* A commit puts one session among the exams of a user, at most, and then it was a
\* start of that user that was past the check.
LEMMA CommitAddsOne ==
  ASSUME IndInv, NEW r \in Requests, Commit(r), NEW u \in Users
  PROVE  Shrinks(u) \/ AddsExam(u)
<1> DEFINE s == requests[r].session
<1>1. WellFormed(requests[r]) /\ requests[r].pc = "commit"
  BY RequestsAreWellFormed DEF IndInv, Commit
<1>2. Admitted(u)' = Admitted(u) \ {r}
  BY CommitShape DEF Admitted
<1>3. ExamsOf(u)' \subseteq ExamsOf(u) \cup {s} /\ s \in Sessions
  BY <1>1, CommitShape DEF ExamsOf, WellFormed
<1>4. CASE r \in Admitted(u)
  BY <1>2, <1>3, <1>4 DEF AddsExam
<1>5. CASE r \notin Admitted(u)
  <2>1. requests[r].exam = NoExam \/ sessions[s].user # u
    BY <1>1, <1>5 DEF Admitted, WellFormed
  <2>2. ExamsOf(u)' \subseteq ExamsOf(u)
    <3>1. CASE sessions[s].user # u
      BY <1>1, <3>1, CommitShape DEF ExamsOf, WellFormed
    <3>2. CASE requests[r].exam = NoExam
      <4>1. requests[r].read \in Rows /\ requests[r].new = Ended(requests[r].read)
        BY <1>1, <3>2, NoneIsAValue DEF WellFormed, IndInv, TypeOK, RequestStates
      <4>2. requests[r].new.is_exam_active = FALSE
        BY <4>1, EndedRow
      <4>3. sessions'[s].is_exam_active => sessions[s].is_exam_active
        <5>1. Written(sessions[s], requests[r].read, requests[r].new).is_exam_active
                \in {sessions[s].is_exam_active, FALSE}
          BY <4>2 DEF Written, Column
        <5> QED
          BY <5>1, CommitShape
      <4> QED
        BY <4>3, CommitShape DEF ExamsOf
    <3> QED
      BY <2>1, <3>1, <3>2
  <2> QED
    BY <1>2, <2>2 DEF Shrinks
<1> QED
  BY <1>4, <1>5

\* No action adds to a user's exams but a start that found none.
LEMMA OverlapSteps ==
  ASSUME IndInv, [Next]_vars, NEW u \in Users
  PROVE  Shrinks(u) \/ Admits(u) \/ AddsExam(u)
<1> USE DEF IndInv, TypeOK
<1>1. CASE \E v \in Users, s \in Sessions : OpenSession(v, s)
  <2>1. PICK v \in Users, s \in Sessions : OpenSession(v, s)
    BY <1>1
  <2>2. /\ sessions'[s].is_exam_active = FALSE
        /\ \A x \in Sessions \ {s} : sessions'[x] = sessions[x]
        /\ requests' = requests
    BY <2>1 DEF OpenSession, NoRow
  <2> QED
    BY <2>2 DEF Shrinks, ExamsOf, Admitted
<1>2. CASE \E s \in Sessions : CloseSession(s)
  <2>1. /\ requests' = requests
        /\ \A x \in Sessions : /\ sessions'[x].user = sessions[x].user
                               /\ sessions'[x].is_active => sessions[x].is_active
                               /\ sessions'[x].is_exam_active = sessions[x].is_exam_active
    BY <1>2 DEF CloseSession, Rows
  <2> QED
    BY <2>1 DEF Shrinks, ExamsOf, Admitted
<1>3. ASSUME NEW r \in Requests, UNCHANGED sessions,
             \A p \in Requests \ {r} : requests'[p] = requests[p],
             \/ requests'[r].pc \notin {"start", "publish", "commit"}
             \/ /\ requests[r].pc \in {"start", "publish", "commit"}
                /\ requests'[r].exam = requests[r].exam
                /\ requests'[r].read = requests[r].read
             \/ requests'[r].exam = NoExam
      PROVE  Shrinks(u)
  BY <1>3 DEF Shrinks, ExamsOf, Admitted
<1>4. ASSUME NEW r \in Requests, Respond(r), UNCHANGED sessions
      PROVE  Shrinks(u)
  <2>1. requests'[r].pc = "idle" /\ \A p \in Requests \ {r} : requests'[p] = requests[p]
    BY <1>4, NoRequestIsARequest DEF Respond
  <2> QED
    BY <1>3, <1>4, <2>1
<1>5. ASSUME NEW r \in Requests, NEW s \in Sessions,
             BeginEnd(r, s) \/ \E exam \in Exams : BeginStart(r, s, exam)
      PROVE  Shrinks(u)
  <2>1. /\ requests'[r].pc \in {"check", "end"}
        /\ \A p \in Requests \ {r} : requests'[p] = requests[p]
        /\ UNCHANGED sessions
    BY ZenonT(30), <1>5, NoRequestIsARequest DEF BeginEnd, BeginStart, Begin, NoRequest
  <2> QED
    BY <1>3, <2>1
<1>6. ASSUME NEW r \in Requests, CheckNoExam(r)
      PROVE  Shrinks(u) \/ Admits(u)
  <2>1. CASE Respond(r)
    BY <1>4, <1>6, <2>1 DEF CheckNoExam
  <2>2. CASE /\ ExamsOf(requests[r].read.user) = {}
             /\ requests' = [requests EXCEPT ![r].pc = "start"]
    <3>1. /\ UNCHANGED sessions
          /\ requests'[r].read = requests[r].read
          /\ \A p \in Requests \ {r} : requests'[p] = requests[p]
      BY <1>6, <2>2 DEF CheckNoExam, RequestStates
    <3>2. CASE u = requests[r].read.user
      BY <2>2, <3>1, <3>2 DEF Admits, ExamsOf
    <3>3. CASE u # requests[r].read.user
      BY <3>1, <3>3 DEF Shrinks, ExamsOf, Admitted
    <3> QED
      BY <3>2, <3>3
  <2> QED
    BY <1>6, <2>1, <2>2 DEF CheckNoExam
<1>7. ASSUME NEW r \in Requests, FlushStart(r) \/ FlushEnd(r) \/ Publish(r)
      PROVE  Shrinks(u)
  <2>1. /\ requests[r].pc = "end" => requests[r].exam = NoExam
        /\ requests[r].pc \in {"start", "end", "publish"}
    BY <1>7 DEF FlushStart, FlushEnd, Publish, RequestsAreExamRequests
  <2>2. /\ UNCHANGED sessions
        /\ requests'[r].exam = requests[r].exam
        /\ requests'[r].read = requests[r].read
        /\ \A p \in Requests \ {r} : requests'[p] = requests[p]
    BY <1>7 DEF FlushStart, FlushEnd, Flush, Publish, RequestStates
  <2> QED
    BY <1>3, <2>1, <2>2
<1>8. CASE Tick \/ UNCHANGED vars
  BY <1>8 DEF Tick, vars, Shrinks, ExamsOf, Admitted
<1> QED
  BY <1>1, <1>2, <1>4, <1>5, <1>6, <1>7, <1>8, CommitAddsOne DEF Next, Abort

\* An exam that is added takes the place of its start.
LEMMA AddingKeepsOverlap ==
  ASSUME NEW u, AddsExam(u),
         Cardinality(ExamsOf(u)) + Cardinality(Admitted(u)) <= Cardinality(Requests)
  PROVE  Cardinality(ExamsOf(u)') + Cardinality(Admitted(u)') <= Cardinality(Requests)
<1>1. PICK r \in Admitted(u), s \in Sessions :
        /\ Admitted(u)' = Admitted(u) \ {r}
        /\ ExamsOf(u)' \subseteq ExamsOf(u) \cup {s}
  BY DEF AddsExam
<1>2. Cardinality(Admitted(u)') = Cardinality(Admitted(u)) - 1
  BY <1>1, OverlapIsFinite, FS_RemoveElement
<1>3. IsFiniteSet(ExamsOf(u)) /\ Cardinality(ExamsOf(u)) \in Nat
  BY OverlapIsFinite
<1>4. /\ IsFiniteSet(ExamsOf(u) \cup {s})
      /\ Cardinality(ExamsOf(u) \cup {s})
           = IF s \in ExamsOf(u) THEN Cardinality(ExamsOf(u)) ELSE Cardinality(ExamsOf(u)) + 1
  BY <1>3, FS_AddElement
<1>5. Cardinality(ExamsOf(u)') <= Cardinality(ExamsOf(u) \cup {s})
  BY <1>1, <1>4, FS_Subset
<1>6. Cardinality(ExamsOf(u) \cup {s}) \in Nat /\ Cardinality(Requests) \in Nat
  BY <1>4, RowsAndRequestsAreFinite, FS_CardinalityType
<1> QED
  BY <1>2, <1>3, <1>4, <1>5, <1>6, OverlapIsFinite, OverlapIsFiniteAfter

\* A user never has more exams than requests overlap, and one if they do not.
THEOREM ExamsAreBounded == Spec => []ExamsPerOverlap
<1>1. Init => ExamsPerOverlap
  <2> SUFFICES ASSUME Init, NEW u \in Users
               PROVE  Cardinality(ExamsOf(u)) + Cardinality(Admitted(u)) <= Cardinality(Requests)
    BY DEF ExamsPerOverlap
  <2>1. ExamsOf(u) = {} /\ Admitted(u) = {}
    BY NoRequestIsARequest DEF Init, ExamsOf, Admitted, NoRow
  <2>2. Cardinality(Requests) \in Nat
    BY RowsAndRequestsAreFinite, FS_CardinalityType
  <2> QED
    BY <2>1, <2>2, FS_EmptySet
<1>2. IndInv /\ ExamsPerOverlap /\ [Next]_vars => ExamsPerOverlap'
  <2> SUFFICES ASSUME IndInv, ExamsPerOverlap, [Next]_vars, NEW u \in Users
               PROVE  Cardinality(ExamsOf(u)') + Cardinality(Admitted(u)') <= Cardinality(Requests)
    BY DEF ExamsPerOverlap
  <2>1. Cardinality(ExamsOf(u)) + Cardinality(Admitted(u)) <= Cardinality(Requests)
    BY DEF ExamsPerOverlap
  <2>2. CASE Admits(u)
    <3>1. Cardinality(Requests) \in Nat
      BY RowsAndRequestsAreFinite, FS_CardinalityType
    <3> QED
      BY <2>2, <3>1, OverlapIsFiniteAfter, FS_EmptySet DEF Admits
  <2> QED
    BY <2>1, <2>2, OverlapSteps, ShrinkingKeepsOverlap, AddingKeepsOverlap DEF Shrinks
<1> QED
  BY <1>1, <1>2, Invariance, PTL DEF Spec

-----------------------------------------------------------------------------
(***************************************************************************)
(* Which overlap gives a user two exams: that of two starts which have     *)
(* both found none.  If at most one of his starts at a time is between its *)
(* check and its commit, he has one exam, whatever ends, logins, logouts   *)
(* and starts of others run meanwhile.                                     *)
(***************************************************************************)
StartsAreApart == \A u \in Users : \A p, q \in Admitted(u) : p = q

AtMostOneExam == \A u \in Users : \A s, t \in ExamsOf(u) : s = t

\* While a start is past its check its user has no exam.
AdmittedHasNone == \A u \in Users : Admitted(u) # {} => ExamsOf(u) = {}

\* tests/test_level_4_sessions.py, line 99, "only one exam session can be active": it
\* takes two starts past the check to break it (session_service.py, lines 80-89).
THEOREM SecondExamNeedsOverlap ==
  Spec /\ []StartsAreApart => []AtMostOneExam
<1>1. Init => AtMostOneExam /\ AdmittedHasNone
  BY NoRequestIsARequest DEF Init, ExamsOf, Admitted, NoRow, AtMostOneExam, AdmittedHasNone
<1>2. IndInv /\ StartsAreApart /\ AtMostOneExam /\ AdmittedHasNone /\ [Next]_vars
        => AtMostOneExam' /\ AdmittedHasNone'
  <2> SUFFICES ASSUME IndInv, StartsAreApart, AtMostOneExam, AdmittedHasNone, [Next]_vars,
                      NEW u \in Users
               PROVE  /\ \A s, t \in ExamsOf(u)' : s = t
                      /\ Admitted(u)' # {} => ExamsOf(u)' = {}
    BY DEF AtMostOneExam, AdmittedHasNone
  <2>1. CASE Shrinks(u)
    BY <2>1 DEF Shrinks, AtMostOneExam, AdmittedHasNone
  <2>2. CASE Admits(u)
    BY <2>2 DEF Admits
  <2>3. CASE AddsExam(u)
    <3>1. PICK r \in Admitted(u), s \in Sessions :
            /\ Admitted(u)' = Admitted(u) \ {r}
            /\ ExamsOf(u)' \subseteq ExamsOf(u) \cup {s}
      BY <2>3 DEF AddsExam
    <3>2. Admitted(u)' = {} /\ ExamsOf(u) = {}
      BY <3>1 DEF StartsAreApart, AdmittedHasNone
    <3> QED
      BY <3>1, <3>2
  <2> QED
    BY <2>1, <2>2, <2>3, OverlapSteps
<1> QED
  BY <1>1, <1>2, Invariance, PTL DEF Spec

=============================================================================
