\* Two requests on two sessions of a user: starts and ends that read the same row, or
\* pass the check for a running exam, before and after each other's commits, on both
\* sides of the time from which an exam outlasts the session.
SPECIFICATION Spec
CONSTANTS
  Users = {u1}
  Sessions = {s1, s2}
  Requests = {r1, r2}
  Exams = {e1, e2}
  NoUser = NoUser
  NoSession = NoSession
  NoExam = NoExam
  MaxDuration = 1
  Lifetime = 2
  MaxTime = 2
SYMMETRY Symmetry
INVARIANTS
  TypeOK
  ExamFitsSession
  NoExamBeforeItsEvent
  ExamsPerOverlap
  IndInv
PROPERTY ClosedStaysClosed
CHECK_DEADLOCK FALSE
