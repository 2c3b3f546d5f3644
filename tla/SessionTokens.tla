--------------------------- MODULE SessionTokens ----------------------------
(***************************************************************************)
(* Sessions and their tokens: token_service.py, the session rows that      *)
(* session_service.py opens and terminates, the bearer check of            *)
(* api/deps.py and the bulk revocations of logout-all and change-password. *)
(*                                                                         *)
(* Every request runs in one database transaction (db/session.py, get_db)  *)
(* under READ COMMITTED.  It reads rows into Python objects, computes, and *)
(* writes the changed columns back by primary key, so what it read may be  *)
(* stale when it writes.  A read, and the write that follows it, are two   *)
(* actions here; a write to one row and the commit that publishes it are   *)
(* one, since nobody sees the row in between and whoever needs it waits.   *)
(* The bulk UPDATE takes its rows one after the other, holds them until    *)
(* its commit, and can wait for another one that waits for it.             *)
(*                                                                         *)
(* The account behind a session is in good standing here, and no session   *)
(* reaches its expiry: both only refuse more requests.                     *)
(***************************************************************************)
EXTENDS Naturals, FiniteSets

CONSTANTS
  Users,      \* users that can log in
  Sessions,   \* ids of the session rows that can ever be inserted
  Requests,   \* HTTP requests that can be in flight at the same time
  NoUser,     \* not a user: the row has not been inserted
  NoSession,  \* not a session: the request names none
  MaxJti      \* bound: refresh tokens that are ever minted

ASSUME NoUserIsNoUser == NoUser \notin Users
ASSUME NoSessionIsNoSession == NoSession \notin Sessions
ASSUME MaxJtiIsNat == MaxJti \in Nat
ASSUME RequestsAreFinite == IsFiniteSet(Requests)

VARIABLES
  sessions,   \* the sessions table, as committed
  requests,   \* what each request in flight has read and where it stands
  issued,     \* token pairs that a response has handed to a client
  lastJti     \* the refresh tokens minted so far are numbered 1..lastJti

vars == <<sessions, requests, issued, lastJti>>

(***************************************************************************)
(* A refresh token is the number of its jti, which makes its hash unique;  *)
(* the column refresh_token_hash holds that number, or NoHash for NULL.    *)
(* The access token minted with it carries the same session and version.   *)
(***************************************************************************)
NoHash == 0

TokenPairs == [session : Sessions, version : Nat, jti : Nat]

SessionRows ==
  [user : Users \cup {NoUser}, is_active : BOOLEAN,
   token_version : Nat, refresh_token_hash : Nat]

NoRow ==
  [user |-> NoUser, is_active |-> FALSE,
   token_version |-> 0, refresh_token_hash |-> NoHash]

BulkOps == {"logout_all", "change_password"}

(***************************************************************************)
(* pc: what the request does next.  user: whom it authenticated as.        *)
(* session and version: the row it read, or is to close, and the version   *)
(* it saw.  rows: the rows the bulk UPDATE has still to lock.  held: those *)
(* it has locked.  seen: the user's sessions that were active when a bulk  *)
(* revocation was authenticated; no code reads it, the properties do.      *)
(***************************************************************************)
RequestStates ==
  [pc : {"idle", "refresh", "logout", "find", "terminate", "bulk", "update"},
   op : BulkOps \cup {"single"},
   user : Users \cup {NoUser},
   session : Sessions \cup {NoSession},
   version : Nat,
   rows : SUBSET Sessions,
   held : SUBSET Sessions,
   seen : SUBSET Sessions]

NoRequest ==
  [pc |-> "idle", op |-> "single", user |-> NoUser, session |-> NoSession,
   version |-> 0, rows |-> {}, held |-> {}, seen |-> {}]

-----------------------------------------------------------------------------
Active(s) == sessions[s].is_active

ActiveSessions(u) == {s \in Sessions : Active(s) /\ sessions[s].user = u}

\* get_current_user_and_session: the session is active and carries the token's version.
Authenticates(t) ==
  /\ Active(t.session)
  /\ sessions[t.session].token_version = t.version

\* refresh_tokens: the same, and the token's hash is the one the row keeps.
RefreshAccepted(t) ==
  /\ Active(t.session)
  /\ sessions[t.session].token_version = t.version
  /\ sessions[t.session].refresh_token_hash = t.jti

\* A bulk UPDATE that has not committed holds the row.
Locked(s) == \E q \in Requests : s \in requests[q].held

\* Bound: every refresh in flight can still mint its token.
TokensLeft ==
  lastJti + Cardinality({q \in Requests : requests[q].pc = "refresh"}) < MaxJti

\* What the bulk UPDATE sets refresh_token_hash to: change_password does not name it.
HashAfter(op, hash) == IF op = "logout_all" THEN NoHash ELSE hash

Respond(r) == requests' = [requests EXCEPT ![r] = NoRequest]

\* Mutant of Issue: a refresh token without a jti of its own.
Issue_SameJti(s, version) ==
  /\ issued' = issued \cup {[session |-> s, version |-> version, jti |-> lastJti + 1]}
  /\ UNCHANGED lastJti

Issue(s, version) ==
  /\ issued' = issued \cup {[session |-> s, version |-> version, jti |-> lastJti + 1]}
  /\ lastJti' = lastJti + 1

-----------------------------------------------------------------------------
Init ==
  /\ sessions = [s \in Sessions |-> NoRow]
  /\ requests = [r \in Requests |-> NoRequest]
  /\ issued = {}
  /\ lastJti = 0

\* Mutant of OpenSession: a closed row is used again instead of a new one.
OpenSession_ReuseRow(u, s) ==
  /\ ~Active(s)
  /\ TokensLeft
  /\ sessions' = [sessions EXCEPT ![s] =
       [user |-> u, is_active |-> TRUE, token_version |-> 1,
        refresh_token_hash |-> lastJti + 1]]
  /\ Issue(s, 1)
  /\ UNCHANGED requests

\* The tail that register, login and accept_invitation share: a new row and its
\* first token pair, inserted and updated in one transaction.
OpenSession(u, s) ==
  /\ sessions[s] = NoRow
  /\ TokensLeft
  /\ sessions' = [sessions EXCEPT ![s] =
       [user |-> u, is_active |-> TRUE, token_version |-> 1,
        refresh_token_hash |-> lastJti + 1]]
  /\ Issue(s, 1)
  /\ UNCHANGED requests

\* refresh_tokens up to its last check.  A refusal changes nothing.
BeginRefresh(r, t) ==
  /\ requests[r].pc = "idle"
  /\ RefreshAccepted(t)
  /\ TokensLeft
  /\ requests' = [requests EXCEPT ![r] =
       [NoRequest EXCEPT !.pc = "refresh", !.user = sessions[t.session].user,
                         !.session = t.session, !.version = t.version]]
  /\ UNCHANGED <<sessions, issued, lastJti>>

\* Mutant of CommitRefresh: SET token_version = token_version + 1, in the database.
CommitRefresh_Increment(r) ==
  LET s == requests[r].session
  IN /\ requests[r].pc = "refresh"
     /\ lastJti < MaxJti
     /\ ~Locked(s)
     /\ sessions' = [sessions EXCEPT ![s].token_version = @ + 1,
                                     ![s].refresh_token_hash = lastJti + 1]
     /\ Issue(s, requests[r].version + 1)
     /\ Respond(r)

\* Mutant of CommitRefresh: the whole row that was read is written back, active.
CommitRefresh_AllColumns(r) ==
  LET s == requests[r].session
      version == requests[r].version + 1
  IN /\ requests[r].pc = "refresh"
     /\ lastJti < MaxJti
     /\ ~Locked(s)
     /\ sessions' = [sessions EXCEPT ![s] =
          [user |-> requests[r].user, is_active |-> TRUE,
           token_version |-> version, refresh_token_hash |-> lastJti + 1]]
     /\ Issue(s, version)
     /\ Respond(r)

\* The rest of refresh_tokens: the version that was read plus one, and the hash
\* of the new token, are written to whatever the row has become.
CommitRefresh(r) ==
  LET s == requests[r].session
      version == requests[r].version + 1
  IN /\ requests[r].pc = "refresh"
     /\ lastJti < MaxJti
     /\ ~Locked(s)
     /\ sessions' = [sessions EXCEPT ![s].token_version = version,
                                     ![s].refresh_token_hash = lastJti + 1]
     /\ Issue(s, version)
     /\ Respond(r)

\* The bearer check in front of logout, DELETE /sessions/{id} and the bulk
\* revocations; target is the session id in the path.
BeginLogout(r, t) ==
  /\ requests[r].pc = "idle"
  /\ Authenticates(t)
  /\ requests' = [requests EXCEPT ![r] =
       [NoRequest EXCEPT !.pc = "logout", !.user = sessions[t.session].user,
                         !.session = t.session]]
  /\ UNCHANGED <<sessions, issued, lastJti>>

BeginTerminate(r, t, target) ==
  /\ requests[r].pc = "idle"
  /\ Authenticates(t)
  /\ requests' = [requests EXCEPT ![r] =
       [NoRequest EXCEPT !.pc = "find", !.user = sessions[t.session].user,
                         !.session = target]]
  /\ UNCHANGED <<sessions, issued, lastJti>>

BeginBulk(r, t, op) ==
  /\ requests[r].pc = "idle"
  /\ Authenticates(t)
  /\ requests' = [requests EXCEPT ![r] =
       [NoRequest EXCEPT !.pc = "bulk", !.op = op, !.user = sessions[t.session].user,
                         !.seen = ActiveSessions(sessions[t.session].user)]]
  /\ UNCHANGED <<sessions, issued, lastJti>>

\* Mutant of CommitLogout: the row is deleted instead of closed.
CommitLogout_Deletes(r) ==
  LET s == requests[r].session
  IN /\ requests[r].pc = "logout"
     /\ ~Locked(s)
     /\ sessions' = [sessions EXCEPT ![s] = NoRow]
     /\ Respond(r)
     /\ UNCHANGED <<issued, lastJti>>

\* revoke_session, and the commit.
CommitLogout(r) ==
  LET s == requests[r].session
  IN /\ requests[r].pc = "logout"
     /\ ~Locked(s)
     /\ sessions' = [sessions EXCEPT ![s].is_active = FALSE,
                                     ![s].refresh_token_hash = NoHash]
     /\ Respond(r)
     /\ UNCHANGED <<issued, lastJti>>

\* Mutant of TerminateRead: the query has no user_id.
TerminateRead_AnyUser(r) ==
  /\ requests[r].pc = "find"
  /\ \/ /\ Active(requests[r].session)
        /\ requests' = [requests EXCEPT ![r].pc = "terminate"]
     \/ /\ ~Active(requests[r].session)
        /\ Respond(r)
  /\ UNCHANGED <<sessions, issued, lastJti>>

\* Mutant of TerminateRead: the query is tried again until it finds the session.
TerminateRead_Retry(r) ==
  /\ requests[r].pc = "find"
  /\ requests[r].session \in ActiveSessions(requests[r].user)
  /\ requests' = [requests EXCEPT ![r].pc = "terminate"]
  /\ UNCHANGED <<sessions, issued, lastJti>>

\* terminate_session looks for an active session of the caller, or answers 404.
TerminateRead(r) ==
  /\ requests[r].pc = "find"
  /\ \/ /\ requests[r].session \in ActiveSessions(requests[r].user)
        /\ requests' = [requests EXCEPT ![r].pc = "terminate"]
     \/ /\ requests[r].session \notin ActiveSessions(requests[r].user)
        /\ Respond(r)
  /\ UNCHANGED <<sessions, issued, lastJti>>

CommitTerminate(r) ==
  LET s == requests[r].session
  IN /\ requests[r].pc = "terminate"
     /\ ~Locked(s)
     /\ sessions' = [sessions EXCEPT ![s].is_active = FALSE,
                                     ![s].refresh_token_hash = NoHash]
     /\ Respond(r)
     /\ UNCHANGED <<issued, lastJti>>

\* UPDATE sessions ... WHERE user_id = :user AND is_active, in revoke_all_user_sessions
\* and in change_password: the statement's snapshot picks the rows,
BulkStart(r) ==
  /\ requests[r].pc = "bulk"
  /\ requests' = [requests EXCEPT ![r].pc = "update",
                                  ![r].rows = ActiveSessions(requests[r].user)]
  /\ UNCHANGED <<sessions, issued, lastJti>>

\* it waits for each to be free, and keeps it if it still satisfies the WHERE,
BulkLock(r, s) ==
  /\ requests[r].pc = "update"
  /\ s \in requests[r].rows
  /\ ~Locked(s)
  /\ requests' = [requests EXCEPT ![r].rows = @ \ {s},
                                  ![r].held = IF Active(s) THEN @ \cup {s} ELSE @]
  /\ UNCHANGED <<sessions, issued, lastJti>>

\* and the commit publishes what it wrote.
BulkCommit(r) ==
  /\ requests[r].pc = "update"
  /\ requests[r].rows = {}
  /\ sessions' = [s \in Sessions |->
       IF s \in requests[r].held
       THEN [user |-> sessions[s].user, is_active |-> FALSE,
             token_version |-> sessions[s].token_version,
             refresh_token_hash |-> HashAfter(requests[r].op, sessions[s].refresh_token_hash)]
       ELSE sessions[s]]
  /\ Respond(r)
  /\ UNCHANGED <<issued, lastJti>>

\* get_db rolls back: an exception in the handler, a failed audit insert or commit,
\* a lost connection, a worker that dies.
Abort(r) ==
  /\ requests[r].pc # "idle"
  /\ Respond(r)
  /\ UNCHANGED <<sessions, issued, lastJti>>

Next ==
  \/ \E u \in Users, s \in Sessions : OpenSession(u, s)
  \/ \E r \in Requests, t \in issued :
       \/ BeginRefresh(r, t)
       \/ BeginLogout(r, t)
       \/ \E target \in Sessions : BeginTerminate(r, t, target)
       \/ \E op \in BulkOps : BeginBulk(r, t, op)
  \/ \E r \in Requests :
       \/ CommitRefresh(r)
       \/ CommitLogout(r)
       \/ TerminateRead(r)
       \/ CommitTerminate(r)
       \/ BulkStart(r)
       \/ \E s \in Sessions : BulkLock(r, s)
       \/ BulkCommit(r)
       \/ Abort(r)

Spec == Init /\ [][Next]_vars

\* Bulk updates that want nothing but each other's rows.
Deadlocked(r) ==
  \E waiting \in SUBSET Requests :
    /\ r \in waiting
    /\ \A q \in waiting :
         /\ requests[q].pc = "update"
         /\ requests[q].rows # {}
         /\ requests[q].rows \subseteq UNION {requests[p].held : p \in waiting \ {q}}

(***************************************************************************)
(* A step that only computes or commits is taken sooner or later (weak); a *)
(* step that needs a row lock comes to the head of PostgreSQL's lock queue *)
(* even if others take the row meanwhile (strong); and PostgreSQL aborts   *)
(* one of those that wait for each other (deadlock_timeout).               *)
(***************************************************************************)
Fairness ==
  \A r \in Requests :
    /\ WF_vars(TerminateRead(r)) /\ WF_vars(BulkStart(r)) /\ WF_vars(BulkCommit(r))
    /\ SF_vars(CommitRefresh(r)) /\ SF_vars(\E s \in Sessions : BulkLock(r, s))
    /\ SF_vars(CommitLogout(r)) /\ SF_vars(CommitTerminate(r))
    /\ WF_vars(Deadlocked(r) /\ Abort(r))

FairSpec == Spec /\ Fairness

-----------------------------------------------------------------------------
(***************************************************************************)
(* What holds between the steps of the requests in flight; the conjuncts   *)
(* of the inductive invariant.                                             *)
(***************************************************************************)
TokensAreUnique ==
  /\ \A t \in issued : t.jti \in 1..lastJti
  /\ \A t, u \in issued : t.jti = u.jti => t = u

\* The token an open session accepts was handed out, at the row's version.
CurrentTokenIsIssued ==
  \A s \in Sessions : Active(s) =>
    [session |-> s, version |-> sessions[s].token_version,
     jti |-> sessions[s].refresh_token_hash] \in issued

ActiveHasUser == \A s \in Sessions : Active(s) => sessions[s].user \in Users

\* A request's rows are rows of the user it authenticated as, open or closed.
RequestKeepsItsUser ==
  \A r \in Requests : requests[r].pc # "idle" =>
    /\ requests[r].user \in Users
    /\ requests[r].pc \in {"refresh", "logout", "find", "terminate"} =>
         requests[r].session \in Sessions
    /\ requests[r].pc \in {"refresh", "logout", "terminate"} =>
         sessions[requests[r].session].user = requests[r].user
    /\ \A s \in requests[r].seen \cup requests[r].rows \cup requests[r].held :
         sessions[s].user = requests[r].user

\* A row lock has one holder, and nobody closes a row under it.
LockedRowsAreHeld ==
  \A r \in Requests : \A s \in requests[r].held :
    /\ Active(s)
    /\ \A q \in Requests \ {r} : s \notin requests[q].held

\* A bulk UPDATE has locked, or will, every session it saw that is still open.
SeenArePicked ==
  \A r \in Requests : requests[r].pc = "update" =>
    \A s \in requests[r].seen : Active(s) => s \in requests[r].rows \cup requests[r].held

\* No version and no hash, in a row or as a request has read it, is ahead of the tokens.
NoneIsAhead ==
  /\ \A s \in Sessions :
       sessions[s].token_version <= lastJti /\ sessions[s].refresh_token_hash <= lastJti
  /\ \A r \in Requests : requests[r].version <= lastJti

\* The tables, the requests and the tokens keep their shape, and no version or hash, in
\* a row or as a request has read it, is ahead of the number of tokens minted: a version
\* is written with a new token only (models/session.py; token_service.py, lines 101-113).
TypeOK ==
  /\ sessions \in [Sessions -> SessionRows]
  /\ requests \in [Requests -> RequestStates]
  /\ issued \subseteq TokenPairs
  /\ lastJti \in 0..MaxJti
  /\ NoneIsAhead

\* No step, taken from any state with this shape, breaks it: what makes the
\* properties below hold whatever order requests read and commit in.
IndInv ==
  /\ TypeOK
  /\ TokensAreUnique
  /\ CurrentTokenIsIssued
  /\ ActiveHasUser
  /\ RequestKeepsItsUser
  /\ LockedRowsAreHeld
  /\ SeenArePicked

\* Whoever holds the latest token pair of an open session can refresh it, and
\* nobody else: refreshes that overtake each other, from the same stale row,
\* leave exactly one accepted refresh token (token_service.py, lines 82-113).
ActiveHasOneRefreshToken ==
  \A s \in Sessions : Active(s) =>
    \E t \in issued : \A u \in issued : (u.session = s /\ RefreshAccepted(u)) <=> u = t

\* When logout-all or change-password commits, every session of the user that was
\* open when the request was authenticated is closed, whatever refreshes, logouts
\* and other revocations ran meanwhile (token_service.py, lines 124-131).
BulkClosesAllSeen ==
  [][\A r \in Requests : BulkCommit(r) =>
       \A s \in requests[r].seen : ~sessions'[s].is_active]_vars

\* A session is closed only by a request that authenticated as its owner
\* (session_service.py, line 64: the caller's id is part of the query).
ClosedByOwner ==
  [][\A s \in Sessions : Active(s) /\ ~Active(s)' =>
       \E r \in Requests :
         /\ requests[r].pc \in {"logout", "terminate", "update"}
         /\ requests'[r].pc = "idle"
         /\ requests[r].user = sessions[s].user]_vars

\* The session service keeps the promise of SessionLifecycle: an open session has
\* one good refresh token, rotation replaces it by a fresh one, and a closed
\* session is never opened again, nor any of its tokens good again.
Phase == [s \in Sessions |->
  IF Active(s) THEN "open" ELSE IF sessions[s].user = NoUser THEN "absent" ELSE "closed"]

Current == [s \in Sessions |-> IF Active(s) THEN sessions[s].refresh_token_hash ELSE NoHash]

Minted == {t.jti : t \in issued}

Lifecycle == INSTANCE SessionLifecycle
  WITH Tokens <- 1..MaxJti, NoToken <- NoHash,
       phase <- Phase, current <- Current, minted <- Minted

ImplementsLifecycle == Lifecycle!LifecycleSpec

\* Every request is answered, even when bulk updates wait for each other's rows
\* (token_service.py, lines 126-130; auth_service.py, lines 203-207).
EveryRequestEnds ==
  \A r \in Requests : requests[r].pc # "idle" ~> requests[r].pc = "idle"

\* What exceptions.py, line 113 tells a client whose access token carries another
\* version than its open session: "Token has been revoked."  Revoked would mean
\* that it is not accepted later.
RevokedStaysRevoked ==
  [][\A t \in issued : ~Authenticates(t) => ~Authenticates(t)']_vars

=============================================================================
