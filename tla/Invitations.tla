---------------------------- MODULE Invitations -----------------------------
(***************************************************************************)
(* How the account of a mobile number comes to be: registration            *)
(* (auth_service.py), and the invitations of administrators and their      *)
(* acceptance and revocation (admin_service.py).  The number is unique in  *)
(* users, a user row is never removed, and only a new row gets an          *)
(* invitation: so one number, with one account and one invitation, is      *)
(* enough.  The command create-admin (cli.py) does to the row what a       *)
(* registration does.                                                      *)
(*                                                                         *)
(* A request reads the invitation, then the account, and writes both back  *)
(* in one flush.  The writers of the status that AccountStatus takes apart *)
(* are one step each here.                                                 *)
(***************************************************************************)
EXTENDS Naturals, FiniteSets

CONSTANT Requests  \* requests that can be in flight for this number

ASSUME RequestsAreFinite == IsFiniteSet(Requests)

VARIABLES
  account,   \* the row of users
  invite,    \* the row of admin_invites: deleted, once it was revoked
  expired,   \* its expires_at has passed
  requests,  \* what each request in flight has read and where it stands
  created,   \* answers that said an account was created; no code reads it
  accepts    \* answers that said an invitation was accepted; no code reads it

vars == <<account, invite, expired, requests, created, accepts>>

Statuses == {"pending", "active", "locked", "disabled"}

\* password: hashed_password is a hash, and not the word PENDING.
Accounts == [status : Statuses \cup {"absent"}, password : BOOLEAN, is_deleted : BOOLEAN]

NoAccount == [status |-> "absent", password |-> FALSE, is_deleted |-> FALSE]

Exists == account.status # "absent"

InviteStates == {"none", "open", "accepted", "revoked"}

\* pc: what the request does next.  status: of the account, as it read it.
RequestStates ==
  [pc : {"idle", "register", "invite", "accept_load", "accept", "revoke_load", "revoke"},
   status : Statuses \cup {"absent"}]

NoRequest == [pc |-> "idle", status |-> "absent"]

Respond(r) == requests' = [requests EXCEPT ![r] = NoRequest]

GoOn(r, pc, status) ==
  /\ requests' = [requests EXCEPT ![r] = [pc |-> pc, status |-> status]]
  /\ UNCHANGED <<account, invite, expired, created, accepts>>

-----------------------------------------------------------------------------
Init ==
  /\ account = NoAccount
  /\ invite = "none"
  /\ expired = FALSE
  /\ requests = [r \in Requests |-> NoRequest]
  /\ created = 0
  /\ accepts = 0

\* The SELECT for an account with this number; a refusal changes nothing.
RegisterRead(r) == requests[r].pc = "idle" /\ ~Exists /\ GoOn(r, "register", "absent")

InviteRead(r) == requests[r].pc = "idle" /\ ~Exists /\ GoOn(r, "invite", "absent")

\* Mutant of CommitRegister: an upsert instead of an INSERT.
CommitRegister_Upsert(r) ==
  /\ requests[r].pc = "register"
  /\ account' = [status |-> "active", password |-> TRUE, is_deleted |-> FALSE]
  /\ created' = created + 1
  /\ Respond(r)
  /\ UNCHANGED <<invite, expired, accepts>>

\* The INSERT, which fails (Abort) if another request has inserted the number.
CommitRegister(r) ==
  /\ requests[r].pc = "register"
  /\ ~Exists
  /\ account' = [status |-> "active", password |-> TRUE, is_deleted |-> FALSE]
  /\ created' = created + 1
  /\ Respond(r)
  /\ UNCHANGED <<invite, expired, accepts>>

CommitInvite(r) ==
  /\ requests[r].pc = "invite"
  /\ ~Exists
  /\ account' = [status |-> "pending", password |-> FALSE, is_deleted |-> FALSE]
  /\ invite' = "open"
  /\ created' = created + 1
  /\ Respond(r)
  /\ UNCHANGED <<expired, accepts>>

\* Mutant of AcceptFind: nobody looks at is_accepted.
AcceptFind_Again(r) ==
  /\ requests[r].pc = "idle"
  /\ invite \in {"open", "accepted"}
  /\ ~expired
  /\ GoOn(r, "accept_load", "absent")

\* accept_invitation finds the invitation: not accepted, not expired;
AcceptFind(r) ==
  /\ requests[r].pc = "idle"
  /\ invite = "open"
  /\ ~expired
  /\ GoOn(r, "accept_load", "absent")

\* it loads the account, whatever its status;
AcceptLoad(r) == requests[r].pc = "accept_load" /\ GoOn(r, "accept", account.status)

\* Mutant of CommitAccept: the new password is not stored.
CommitAccept_NoPassword(r) ==
  /\ requests[r].pc = "accept"
  /\ invite # "revoked"
  /\ account' = [account EXCEPT !.status = IF requests[r].status = "active" THEN @ ELSE "active"]
  /\ invite' = "accepted"
  /\ accepts' = accepts + 1
  /\ Respond(r)
  /\ UNCHANGED <<expired, created>>

\* and writes both.  An UPDATE that finds the invitation deleted raises
\* StaleDataError (Abort); the status is in the UPDATE if it was not active.
CommitAccept(r) ==
  /\ requests[r].pc = "accept"
  /\ invite # "revoked"
  /\ account' = [account EXCEPT !.password = TRUE,
                                !.status = IF requests[r].status = "active" THEN @ ELSE "active"]
  /\ invite' = "accepted"
  /\ accepts' = accepts + 1
  /\ Respond(r)
  /\ UNCHANGED <<expired, created>>

\* revoke_invitation finds the invitation, expired or not, and loads the account.
RevokeFind(r) ==
  /\ requests[r].pc = "idle"
  /\ invite = "open"
  /\ GoOn(r, "revoke_load", "absent")

RevokeLoad(r) == requests[r].pc = "revoke_load" /\ GoOn(r, "revoke", account.status)

\* Mutant of CommitRevoke: only the invitation goes.
CommitRevoke_KeepsUser(r) ==
  /\ requests[r].pc = "revoke"
  /\ invite' = "revoked"
  /\ Respond(r)
  /\ UNCHANGED <<account, expired, created, accepts>>

\* The account goes if it was pending when it was read.  A DELETE that finds no row
\* is a warning, not an error.
CommitRevoke(r) ==
  /\ requests[r].pc = "revoke"
  /\ account' = [account EXCEPT !.is_deleted = @ \/ requests[r].status = "pending"]
  /\ invite' = "revoked"
  /\ Respond(r)
  /\ UNCHANGED <<expired, created, accepts>>

Abort(r) ==
  /\ requests[r].pc # "idle"
  /\ Respond(r)
  /\ UNCHANGED <<account, invite, expired, created, accepts>>

SetStatus(status) ==
  /\ account' = [account EXCEPT !.status = status]
  /\ UNCHANGED <<invite, expired, requests, created, accepts>>

\* Failed logins lock the account in any status; the admin routes act on any that is
\* not deleted; a login ends a lock that is over, if there is a password to log in with.
LockOut == Exists /\ SetStatus("locked")

Disable == Exists /\ ~account.is_deleted /\ SetStatus("disabled")

Reinstate == Exists /\ ~account.is_deleted /\ SetStatus("active")

LockEnds == account.status = "locked" /\ account.password /\ SetStatus("active")

Expire ==
  /\ invite # "none"
  /\ expired' = TRUE
  /\ UNCHANGED <<account, invite, requests, created, accepts>>

Next ==
  \/ \E r \in Requests :
       \/ RegisterRead(r)
       \/ InviteRead(r)
       \/ CommitRegister(r)
       \/ CommitInvite(r)
       \/ AcceptFind(r)
       \/ AcceptLoad(r)
       \/ CommitAccept(r)
       \/ RevokeFind(r)
       \/ RevokeLoad(r)
       \/ CommitRevoke(r)
       \/ Abort(r)
  \/ LockOut
  \/ Disable
  \/ Reinstate
  \/ LockEnds
  \/ Expire

Spec == Init /\ [][Next]_vars

-----------------------------------------------------------------------------
\* The rows and the requests keep their shape, and an account without a password has
\* an invitation that was not accepted (models/user.py, models/admin_invite.py).
TypeOK ==
  /\ account \in Accounts
  /\ invite \in InviteStates
  /\ expired \in BOOLEAN
  /\ requests \in [Requests -> RequestStates]
  /\ created \in Nat
  /\ accepts \in Nat
  /\ Exists /\ ~account.password => invite \in {"open", "revoked"}

\* However registrations and invitations of a number race, one of them is told that
\* it created the account (auth_service.py, lines 54-68; admin_service.py, lines 51-73).
OneAccountPerNumber == created = IF Exists THEN 1 ELSE 0

\* A pending account that is not deleted has an invitation row that is neither accepted
\* nor deleted, expired or not: no race of revocations, acceptances and locks takes the
\* one and leaves the other (admin_service.py, lines 174-178).
PendingHasInvite ==
  account.status = "pending" /\ ~account.is_deleted => invite = "open"

\* The invitation and what is read of it need an account.
RequestsHaveAccount ==
  /\ ~Exists => invite = "none"
  /\ \A r \in Requests :
       requests[r].pc \in {"accept_load", "accept", "revoke_load", "revoke"} => Exists

\* No account becomes pending again: what is pending now was pending when it was read.
PendingWasRead ==
  \A r \in Requests :
    requests[r].pc \in {"accept", "revoke"} /\ account.status = "pending" =>
      requests[r].status = "pending"

\* No step, taken from any state with this shape, breaks it.
IndInv ==
  /\ TypeOK
  /\ OneAccountPerNumber
  /\ PendingHasInvite
  /\ RequestsHaveAccount
  /\ PendingWasRead

\* An invitation is accepted by no more requests than overlap: once, if they come one
\* at a time (admin_service.py, lines 108 and 123).
AcceptedOncePerOverlap == accepts <= Cardinality(Requests)

\* Requests that have found the invitation open and may yet accept it.
Accepting == {r \in Requests : requests[r].pc \in {"accept_load", "accept"}}

\* Nobody finds it open again once it was accepted, so all who accept it found it before.
AcceptancesFit ==
  /\ invite \in {"none", "open"} => accepts = 0
  /\ accepts + Cardinality(Accepting) <= Cardinality(Requests)

\* api/v1/admin.py, line 94: "Revoke a pending invitation".  An account that accepted
\* its invitation is not deleted by a revocation.
RevokeSparesAccepted == account.is_deleted => accepts = 0

=============================================================================
