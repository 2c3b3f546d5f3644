--------------------------- MODULE MCExamSessions ---------------------------
(* ExamSessions on small sets; users, sessions, requests and exams are alike. *)
EXTENDS ExamSessions, TLC

Symmetry ==
  Permutations(Users) \cup Permutations(Sessions)
    \cup Permutations(Requests) \cup Permutations(Exams)

=============================================================================
