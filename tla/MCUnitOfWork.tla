---------------------------- MODULE MCUnitOfWork -----------------------------
(* Requests of three kinds on two workers, with a reader of their audit rows. *)
EXTENDS AuditPages, TLC

CONSTANTS r1, r2, r3, w1, w2, session, user

MCKindOf == r1 :> "exam" @@ r2 :> "admin" @@ r3 :> "failed_login"

\* The exam is on a session; the other two are about one user.
MCRowOf == r1 :> session @@ r2 :> user @@ r3 :> user

MCWorkerOf == r1 :> w1 @@ r2 :> w1 @@ r3 :> w2

=============================================================================
