----------------------------- MODULE Credentials -----------------------------
(***************************************************************************)
(* The password of one account and the sessions opened with it: login      *)
(* (with its rehash) and change-password (services/auth_service.py), each  *)
(* from the row it read when it verified the password.                     *)
(*                                                                         *)
(* A login holds the row of the account from its flush to its commit; the  *)
(* UPDATE of a change closes the sessions it sees, takes their rows, and   *)
(* only then the row of the account.  What a client types wrong is in      *)
(* AccountStatus, the first password in Invitations.                       *)
(***************************************************************************)
CONSTANTS
  Requests,   \* requests that may be in flight together
  Sessions,   \* sessions that are ever opened
  Passwords,
  NoPassword

ASSUME NoPasswordIsNone == NoPassword \notin Passwords

VARIABLES
  account,   \* hashed_password: of which password, and with which Argon2 parameters
  chosen,    \* the password that the last change set; no code reads it
  sessions,  \* the table, with the password and the history of each login
  requests   \* what each request has read and holds

vars == <<account, chosen, sessions, requests>>

Accounts == [password : Passwords, outdated : BOOLEAN]

(***************************************************************************)
(* overlapped: the login was under way while a change closed sessions or   *)
(* committed.  rehashed: it wrote hashed_password.                         *)
(***************************************************************************)
SessionRows ==
  [state : {"absent", "open", "closed"}, password : Passwords \cup {NoPassword},
   overlapped : BOOLEAN, rehashed : BOOLEAN]

NoRow == [state |-> "absent", password |-> NoPassword, overlapped |-> FALSE, rehashed |-> FALSE]

(***************************************************************************)
(* password: the one that a login verified, or that a change is to set.    *)
(* closing: the sessions that the UPDATE of a change has seen open.        *)
(***************************************************************************)
RequestStates ==
  [pc : {"idle", "verified", "flushed", "checked", "closing", "closed", "updated"},
   password : Passwords \cup {NoPassword}, outdated : BOOLEAN,
   closing : SUBSET Sessions, overlapped : BOOLEAN]

NoRequest ==
  [pc |-> "idle", password |-> NoPassword, outdated |-> FALSE,
   closing |-> {}, overlapped |-> FALSE]

Open == {s \in Sessions : sessions[s].state = "open"}

LoggingIn == {r \in Requests : requests[r].pc \in {"verified", "flushed"}}

\* Changes whose UPDATE has seen the sessions, and those that hold their rows.
Closing == {r \in Requests : requests[r].pc \in {"closing", "closed", "updated"}}

Holds(r) == IF requests[r].pc \in {"closed", "updated"} THEN requests[r].closing ELSE {}

AccountIsFree == \A r \in Requests : requests[r].pc \notin {"flushed", "updated"}

Goto(r, pc) == requests' = [requests EXCEPT ![r].pc = pc]

Respond(r) == requests' = [requests EXCEPT ![r] = NoRequest]

-----------------------------------------------------------------------------
Init ==
  /\ account \in Accounts
  /\ chosen = account.password
  /\ sessions = [s \in Sessions |-> NoRow]
  /\ requests = [r \in Requests |-> NoRequest]

\* The client knows the password; the hash that verified it may be one of former times.
LoginRead(r) ==
  /\ requests[r].pc = "idle"
  /\ requests' = [requests EXCEPT ![r] =
       [NoRequest EXCEPT !.pc = "verified", !.password = account.password,
                         !.outdated = account.outdated]]
  /\ UNCHANGED <<account, chosen, sessions>>

\* The counter and the time of the login are in every UPDATE: it takes the row.
LoginFlush(r) ==
  /\ requests[r].pc = "verified"
  /\ AccountIsFree
  /\ Goto(r, "flushed")
  /\ UNCHANGED <<account, chosen, sessions>>

NewSession(r) ==
  [state |-> "open", password |-> requests[r].password,
   overlapped |-> requests[r].overlapped \/ Closing # {},
   rehashed |-> requests[r].outdated]

\* Mutant of LoginCommit: the UPDATE writes every column of the row, the hash included.
LoginCommit_AllColumns(r) ==
  /\ requests[r].pc = "flushed"
  /\ \E s \in Sessions :
       /\ sessions[s].state = "absent"
       /\ sessions' = [sessions EXCEPT ![s] = NewSession(r)]
  /\ account' = [password |-> requests[r].password, outdated |-> FALSE]
  /\ Respond(r)
  /\ UNCHANGED chosen

\* The session becomes visible, and so does the hash if the one that was read is outdated.
LoginCommit(r) ==
  /\ requests[r].pc = "flushed"
  /\ \E s \in Sessions :
       /\ sessions[s].state = "absent"
       /\ sessions' = [sessions EXCEPT ![s] = NewSession(r)]
  /\ account' = IF requests[r].outdated
                THEN [password |-> requests[r].password, outdated |-> FALSE]
                ELSE account
  /\ Respond(r)
  /\ UNCHANGED chosen

\* The bearer check has found an open session, and the current password is right.
ChangeRead(r, new) ==
  /\ requests[r].pc = "idle"
  /\ Open # {}
  /\ requests' = [requests EXCEPT ![r] =
       [NoRequest EXCEPT !.pc = "checked", !.password = new]]
  /\ UNCHANGED <<account, chosen, sessions>>

\* Mutant of ChangeStart: the sessions are left to token_version.
ChangeStart_NoUpdate(r) ==
  /\ requests[r].pc = "checked"
  /\ requests' = [requests EXCEPT ![r].pc = "closing", ![r].closing = {}]
  /\ UNCHANGED <<account, chosen, sessions>>

\* The UPDATE of the sessions has the snapshot of its start ...
ChangeStart(r) ==
  /\ requests[r].pc = "checked"
  /\ requests' = [requests EXCEPT ![r].pc = "closing", ![r].closing = Open]
  /\ UNCHANGED <<account, chosen, sessions>>

\* Mutant of ChangeClose: it closes the rows of a query, which waits for nobody.
ChangeClose_NoWait(r) ==
  /\ requests[r].pc = "closing"
  /\ Goto(r, "closed")
  /\ UNCHANGED <<account, chosen, sessions>>

\* ... waits for rows that another change holds, and skips those that it has closed.
ChangeClose(r) ==
  /\ requests[r].pc = "closing"
  /\ \A q \in Requests \ {r} : Holds(q) \cap requests[r].closing = {}
  /\ requests' = [requests EXCEPT ![r].pc = "closed",
                                  ![r].closing = requests[r].closing \cap Open]
  /\ UNCHANGED <<account, chosen, sessions>>

\* The flush of the audit row takes the changed columns of the account along.
ChangeFlush(r) ==
  /\ requests[r].pc = "closed"
  /\ AccountIsFree
  /\ Goto(r, "updated")
  /\ UNCHANGED <<account, chosen, sessions>>

ChangeCommit(r) ==
  /\ requests[r].pc = "updated"
  /\ account' = [password |-> requests[r].password, outdated |-> FALSE]
  /\ chosen' = requests[r].password
  /\ sessions' = [s \in Sessions |->
       IF s \in requests[r].closing THEN [sessions[s] EXCEPT !.state = "closed"] ELSE sessions[s]]
  /\ requests' = [q \in Requests |->
       IF q = r THEN NoRequest
       ELSE IF q \in LoggingIn THEN [requests[q] EXCEPT !.overlapped = TRUE]
       ELSE requests[q]]

\* A logout, or the termination of a session.
CloseSession(s) ==
  /\ s \in Open
  /\ \A r \in Requests : s \notin Holds(r)
  /\ sessions' = [sessions EXCEPT ![s].state = "closed"]
  /\ UNCHANGED <<account, chosen, requests>>

\* An exception, a lost connection or a dead worker: the transaction is rolled back.
Abort(r) ==
  /\ requests[r].pc # "idle"
  /\ Respond(r)
  /\ UNCHANGED <<account, chosen, sessions>>

Next ==
  \/ \E r \in Requests :
       \/ LoginRead(r)
       \/ LoginFlush(r)
       \/ LoginCommit(r)
       \/ \E new \in Passwords : ChangeRead(r, new)
       \/ ChangeStart(r)
       \/ ChangeClose(r)
       \/ ChangeFlush(r)
       \/ ChangeCommit(r)
       \/ Abort(r)
  \/ \E s \in Sessions : CloseSession(s)

Spec == Init /\ [][Next]_vars

-----------------------------------------------------------------------------
\* Rows and requests keep their shape, and two changes never hold the same session
\* (auth_service.py, lines 203-207).
TypeOK ==
  /\ account \in Accounts
  /\ chosen \in Passwords
  /\ sessions \in [Sessions -> SessionRows]
  /\ requests \in [Requests -> RequestStates]
  /\ \A s \in Open : sessions[s].password # NoPassword
  /\ \A s \in Sessions : sessions[s].state = "absent" => sessions[s] = NoRow
  /\ \A r \in Requests : requests[r].pc # "idle" => requests[r].password # NoPassword
  /\ \A r, q \in Requests : Holds(r) \cap Holds(q) # {} => r = q

\* A session that was opened with another password than the present one is gone, unless
\* its login overlapped the change: no login before it, and none after it, leaves a
\* session that the change spares (auth_service.py, lines 203-207).
OnlyOverlappingLoginsSurvive ==
  \A s \in Open :
    sessions[s].overlapped \/ sessions[s].password \in {account.password, chosen}

\* Only a login that overlapped the change, and read a hash of former parameters, can put
\* the former password back: every other login leaves hashed_password to the change
\* (auth_service.py, lines 128-134).
OnlyRehashRevives ==
  account.password # chosen =>
    \E s \in Sessions :
      /\ sessions[s].overlapped /\ sessions[s].rehashed
      /\ sessions[s].password = account.password

\* Passwords that logins in flight have verified are those of the account, or of former
\* times if a change came between.
LoginsAreUpToDate ==
  \A r \in LoggingIn :
    requests[r].overlapped \/ requests[r].password \in {account.password, chosen}

\* There is one password whose hash was ever outdated.
OneOutdatedPassword ==
  /\ account.outdated => account.password = chosen
  /\ \A r \in Requests : requests[r].outdated =>
       /\ r \in LoggingIn
       /\ account.outdated \/ account.password # chosen => requests[r].password = account.password
       /\ \A q \in Requests : requests[q].outdated => requests[q].password = requests[r].password

\* A change will close every open session, but for those of logins that overlap it.
ClosingIsComplete ==
  \A r \in Closing : \A s \in Open \ requests[r].closing : sessions[s].overlapped

\* No step, taken from any state with this shape, breaks it.
IndInv ==
  /\ TypeOK
  /\ OnlyOverlappingLoginsSurvive
  /\ OnlyRehashRevives
  /\ LoginsAreUpToDate
  /\ OneOutdatedPassword
  /\ ClosingIsComplete

\* The password of a change that was committed is the one to log in with
\* (tests/test_level_6_security.py, lines 13-40: "Test password change functionality").
\* Violated: a login that overlaps it and rehashes writes the former one back.
ChangedPasswordHolds == account.password = chosen

=============================================================================
