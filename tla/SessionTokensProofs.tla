------------------------- MODULE SessionTokensProofs -------------------------
(***************************************************************************)
(* Theorems about SessionTokens, for any users, sessions, requests and     *)
(* MaxJti.  IndInv is inductive; the properties follow from it.            *)
(***************************************************************************)
EXTENDS SessionTokens, FiniteSetTheorems, TLAPS

-----------------------------------------------------------------------------
\* While TokensLeft, another token can be minted: what the bound in the guards of
\* OpenSession is for.
LEMMA TokensLeftBound ==
  ASSUME TokensLeft, TypeOK
  PROVE  lastJti < MaxJti
<1> DEFINE Refreshing == {q \in Requests : requests[q].pc = "refresh"}
<1>1. IsFiniteSet(Refreshing)
  BY FS_Subset, RequestsAreFinite
<1>2. Cardinality(Refreshing) \in Nat
  BY <1>1, FS_CardinalityType
<1> HIDE DEF Refreshing
<1>3. lastJti + Cardinality(Refreshing) < MaxJti
  BY DEF TokensLeft, Refreshing
<1> QED
  BY <1>2, <1>3, MaxJtiIsNat DEF TypeOK

(***************************************************************************)
(* What a step needs to say about the rows when request r ends with it:    *)
(* they keep their users, none is reopened, and none that another request  *)
(* has locked is closed.                                                   *)
(***************************************************************************)
RowsKept(r) ==
  \A s \in Sessions :
    /\ sessions'[s].user = sessions[s].user
    /\ Active(s)' => Active(s)
    /\ Active(s) /\ ~Active(s)' =>
         \A q \in Requests \ {r} : s \notin requests[q].held

\* A request that ends leaves what is known of the others as it was.
LEMMA RespondKeepsRequests ==
  ASSUME IndInv, NEW r \in Requests, Respond(r), RowsKept(r)
  PROVE  /\ requests' \in [Requests -> RequestStates]
         /\ RequestKeepsItsUser'
         /\ LockedRowsAreHeld'
         /\ SeenArePicked'
<1> USE DEF IndInv, TypeOK, Respond, RowsKept, NoRequest
<1>1. requests' \in [Requests -> RequestStates]
  BY DEF RequestStates
<1>2. /\ requests'[r].pc = "idle"
      /\ requests'[r].held = {}
      /\ \A q \in Requests \ {r} : requests'[q] = requests[q]
  OBVIOUS
<1>3. RequestKeepsItsUser'
  BY <1>2 DEF RequestKeepsItsUser, RequestStates
<1>4. LockedRowsAreHeld'
  BY <1>2 DEF LockedRowsAreHeld, RequestStates
<1>5. SeenArePicked'
  BY <1>2 DEF SeenArePicked, RequestStates
<1> QED
  BY <1>1, <1>3, <1>4, <1>5

\* A request that ends has read nothing any more.
LEMMA RespondIsNotAhead ==
  ASSUME IndInv, NEW r \in Requests, Respond(r), UNCHANGED lastJti,
         \A s \in Sessions :
           sessions'[s].token_version <= lastJti /\ sessions'[s].refresh_token_hash <= lastJti
  PROVE  NoneIsAhead'
BY MaxJtiIsNat DEF IndInv, TypeOK, NoneIsAhead, Respond, NoRequest, RequestStates

\* Closing rows, or leaving them alone, disturbs no token of an open session.
LEMMA ClosingKeepsTokens ==
  ASSUME IndInv, UNCHANGED <<issued, lastJti>>,
         sessions' \in [Sessions -> SessionRows],
         \A s \in Sessions : Active(s)' => sessions'[s] = sessions[s]
  PROVE  TokensAreUnique' /\ CurrentTokenIsIssued' /\ ActiveHasUser'
BY DEF IndInv, TokensAreUnique, CurrentTokenIsIssued, ActiveHasUser, Active

-----------------------------------------------------------------------------
\* In the initial state there is no row, no request and no token.
LEMMA InitEstablishesIndInv == Init => IndInv
BY MaxJtiIsNat
   DEF Init, IndInv, TypeOK, NoneIsAhead, TokensAreUnique, CurrentTokenIsIssued, ActiveHasUser,
       RequestKeepsItsUser, LockedRowsAreHeld, SeenArePicked, SessionRows,
       RequestStates, NoRow, NoRequest, NoHash, Active

\* Every action preserves the inductive invariant.
LEMMA NextPreservesIndInv ==
  ASSUME IndInv, [Next]_vars
  PROVE  IndInv'
<1> USE DEF IndInv, TypeOK
<1>1. ASSUME NEW u \in Users, NEW s \in Sessions, OpenSession(u, s)
      PROVE  IndInv'
  <2> USE <1>1 DEF OpenSession, Issue
  <2>1. lastJti < MaxJti
    BY TokensLeftBound
  <2>0. NoneIsAhead'
    BY <2>1, MaxJtiIsNat DEF NoneIsAhead, SessionRows, RequestStates
  <2>2. TypeOK'
    BY <2>0, <2>1, MaxJtiIsNat DEF SessionRows, TokenPairs
  <2>3. TokensAreUnique'
    BY DEF TokensAreUnique
  <2>4. CurrentTokenIsIssued'
    BY DEF CurrentTokenIsIssued, Active, SessionRows
  <2>5. ActiveHasUser'
    BY DEF ActiveHasUser, Active
  <2>6. RequestKeepsItsUser'
    BY NoUserIsNoUser DEF RequestKeepsItsUser, RequestStates, NoRow
  <2>7. LockedRowsAreHeld'
    BY DEF LockedRowsAreHeld, Active, RequestStates
  <2>8. SeenArePicked'
    BY NoUserIsNoUser DEF SeenArePicked, RequestKeepsItsUser, Active, RequestStates, NoRow
  <2> QED
    BY <2>2, <2>3, <2>4, <2>5, <2>6, <2>7, <2>8
<1>2. ASSUME NEW r \in Requests, CommitRefresh(r)
      PROVE  IndInv'
  <2> DEFINE s == requests[r].session
  <2> USE <1>2 DEF CommitRefresh, Issue
  <2>1. s \in Sessions
    BY DEF RequestKeepsItsUser
  <2>2. /\ sessions' \in [Sessions -> SessionRows]
        /\ RowsKept(r)
    BY <2>1 DEF SessionRows, RequestStates, RowsKept, Active
  <2>3. /\ requests' \in [Requests -> RequestStates]
        /\ RequestKeepsItsUser' /\ LockedRowsAreHeld' /\ SeenArePicked'
    BY <2>2, RespondKeepsRequests
  <2>0. NoneIsAhead'
    <3>1. requests[r].version + 1 <= lastJti + 1 /\ lastJti' = lastJti + 1 /\ lastJti \in Nat
      BY MaxJtiIsNat DEF NoneIsAhead, RequestStates
    <3>2. ASSUME NEW x \in Sessions
          PROVE  sessions'[x].token_version <= lastJti' /\ sessions'[x].refresh_token_hash <= lastJti'
      BY <2>1, <3>1 DEF NoneIsAhead, SessionRows
    <3>3. ASSUME NEW q \in Requests
          PROVE  requests'[q].version <= lastJti'
      BY <3>1 DEF NoneIsAhead, RequestStates, Respond, NoRequest
    <3> QED
      BY <3>2, <3>3 DEF NoneIsAhead
  <2>4. TypeOK'
    BY <2>0, <2>1, <2>2, <2>3, MaxJtiIsNat DEF SessionRows, RequestStates, TokenPairs
  <2>5. TokensAreUnique'
    BY DEF TokensAreUnique
  <2>6. CurrentTokenIsIssued'
    BY <2>1 DEF CurrentTokenIsIssued, Active, SessionRows
  <2>7. ActiveHasUser'
    BY <2>1 DEF ActiveHasUser, Active, SessionRows
  <2> QED
    BY <2>3, <2>4, <2>5, <2>6, <2>7
<1>3. ASSUME NEW r \in Requests, CommitLogout(r) \/ CommitTerminate(r)
      PROVE  IndInv'
  <2> DEFINE s == requests[r].session
  <2>1. s \in Sessions
    BY <1>3 DEF CommitLogout, CommitTerminate, RequestKeepsItsUser
  <2>2. /\ ~Locked(s)
        /\ sessions' = [sessions EXCEPT ![s].is_active = FALSE, ![s].refresh_token_hash = NoHash]
        /\ Respond(r)
        /\ UNCHANGED <<issued, lastJti>>
    BY <1>3 DEF CommitLogout, CommitTerminate
  <2>3. /\ sessions' \in [Sessions -> SessionRows]
        /\ \A x \in Sessions : Active(x)' => sessions'[x] = sessions[x]
    BY ZenonT(30), <2>1, <2>2 DEF SessionRows, Active, NoHash
  <2>4. NoneIsAhead'
    <3>1. ASSUME NEW x \in Sessions
          PROVE  sessions'[x].token_version <= lastJti /\ sessions'[x].refresh_token_hash <= lastJti
      BY <2>1, <2>2, MaxJtiIsNat DEF NoneIsAhead, SessionRows, NoHash
    <3> QED
      BY <2>2, <3>1, RespondIsNotAhead
  <2>5. RowsKept(r)
    BY <2>1, <2>2 DEF SessionRows, RowsKept, Active, Locked
  <2>6. /\ requests' \in [Requests -> RequestStates]
        /\ RequestKeepsItsUser' /\ LockedRowsAreHeld' /\ SeenArePicked'
    BY <2>2, <2>5, RespondKeepsRequests
  <2> QED
    BY <2>2, <2>3, <2>4, <2>6, ClosingKeepsTokens
<1>4. ASSUME NEW r \in Requests, BulkCommit(r)
      PROVE  IndInv'
  <2> USE <1>4 DEF BulkCommit
  <2>1. sessions' \in [Sessions -> SessionRows]
    <3>1. \A x \in Sessions :
            /\ sessions[x] \in SessionRows
            /\ HashAfter(requests[r].op, sessions[x].refresh_token_hash) \in Nat
      BY DEF SessionRows, HashAfter, NoHash
    <3>2. \A x \in Sessions : sessions'[x] \in SessionRows
      BY <3>1 DEF SessionRows
    <3> QED
      BY <3>2
  <2>2. \A x \in Sessions : Active(x)' => sessions'[x] = sessions[x]
    BY DEF Active
  <2>3. NoneIsAhead'
    <3>1. ASSUME NEW x \in Sessions
          PROVE  sessions'[x].token_version <= lastJti /\ sessions'[x].refresh_token_hash <= lastJti
      <4>1. CASE x \in requests[r].held
        <5>1. /\ sessions'[x].refresh_token_hash =
                   HashAfter(requests[r].op, sessions[x].refresh_token_hash)
              /\ sessions'[x].token_version = sessions[x].token_version
          BY <4>1 DEF SessionRows
        <5> QED
          BY <5>1, MaxJtiIsNat DEF HashAfter, NoHash, NoneIsAhead
      <4>2. CASE x \notin requests[r].held
        BY <4>2 DEF NoneIsAhead
      <4> QED
        BY <4>1, <4>2
    <3> QED
      BY <3>1, RespondIsNotAhead
  <2>4. RowsKept(r)
    BY DEF SessionRows, RowsKept, Active, LockedRowsAreHeld
  <2>5. /\ requests' \in [Requests -> RequestStates]
        /\ RequestKeepsItsUser' /\ LockedRowsAreHeld' /\ SeenArePicked'
    BY <2>4, RespondKeepsRequests
  <2> QED
    BY <2>1, <2>2, <2>3, <2>5, ClosingKeepsTokens
<1>5. ASSUME NEW r \in Requests, Respond(r), UNCHANGED <<sessions, issued, lastJti>>
      PROVE  IndInv'
  <2>1. RowsKept(r)
    BY <1>5 DEF RowsKept, Active
  <2>2. /\ requests' \in [Requests -> RequestStates]
        /\ RequestKeepsItsUser' /\ LockedRowsAreHeld' /\ SeenArePicked'
    BY <1>5, <2>1, RespondKeepsRequests
  <2>3. NoneIsAhead'
    BY <1>5, RespondIsNotAhead DEF NoneIsAhead
  <2> QED
    BY <1>5, <2>2, <2>3, ClosingKeepsTokens
<1>6. ASSUME NEW r \in Requests, NEW q \in RequestStates,
             requests' = [requests EXCEPT ![r] = q],
             UNCHANGED <<sessions, issued, lastJti>>,
             q.user \in Users, q.version <= lastJti,
             q.pc \in {"refresh", "logout", "find", "terminate"} => q.session \in Sessions,
             q.pc \in {"refresh", "logout", "terminate"} => sessions[q.session].user = q.user,
             \A s \in q.seen \cup q.rows \cup q.held : sessions[s].user = q.user,
             \A s \in q.held :
               Active(s) /\ \A p \in Requests \ {r} : s \notin requests[p].held,
             q.pc = "update" => \A s \in q.seen : Active(s) => s \in q.rows \cup q.held
      PROVE  IndInv'
  <2>1. /\ requests'[r] = q
        /\ \A p \in Requests \ {r} : requests'[p] = requests[p]
    BY <1>6
  <2>0. NoneIsAhead'
    BY <1>6, <2>1 DEF NoneIsAhead
  <2>2. TypeOK'
    BY <1>6, <2>0
  <2>3. TokensAreUnique' /\ CurrentTokenIsIssued' /\ ActiveHasUser'
    BY <1>6, ClosingKeepsTokens
  <2>4. RequestKeepsItsUser'
    BY <1>6, <2>1 DEF RequestKeepsItsUser, RequestStates
  <2>5. LockedRowsAreHeld'
    BY <1>6, <2>1 DEF LockedRowsAreHeld, RequestStates, Active
  <2>6. SeenArePicked'
    BY <1>6, <2>1 DEF SeenArePicked, RequestStates, Active
  <2> QED
    BY <2>2, <2>3, <2>4, <2>5, <2>6
<1>7. ASSUME NEW r \in Requests, NEW t \in issued, BeginRefresh(r, t)
      PROVE  IndInv'
  <2> DEFINE q == [NoRequest EXCEPT !.pc = "refresh", !.user = sessions[t.session].user,
                                    !.session = t.session, !.version = t.version]
  <2> USE <1>7 DEF BeginRefresh, RefreshAccepted, ActiveHasUser, TokenPairs, NoRequest
  <2>1. q \in RequestStates
    BY DEF RequestStates
  <2>2. q.version <= lastJti
    BY DEF NoneIsAhead
  <2> QED
    BY <2>1, <2>2, <1>6
<1>8. ASSUME NEW r \in Requests, NEW t \in issued, BeginLogout(r, t)
      PROVE  IndInv'
  <2> DEFINE q == [NoRequest EXCEPT !.pc = "logout", !.user = sessions[t.session].user,
                                    !.session = t.session]
  <2> USE <1>8 DEF BeginLogout, Authenticates, ActiveHasUser, TokenPairs, NoRequest
  <2>1. q \in RequestStates
    BY DEF RequestStates
  <2>2. q.version <= lastJti
    BY MaxJtiIsNat
  <2> QED
    BY <2>1, <2>2, <1>6
<1>9. ASSUME NEW r \in Requests, NEW t \in issued, NEW target \in Sessions,
             BeginTerminate(r, t, target)
      PROVE  IndInv'
  <2> DEFINE q == [NoRequest EXCEPT !.pc = "find", !.user = sessions[t.session].user,
                                    !.session = target]
  <2> USE <1>9 DEF BeginTerminate, Authenticates, ActiveHasUser, TokenPairs, NoRequest
  <2>1. q \in RequestStates
    BY DEF RequestStates
  <2>2. q.version <= lastJti
    BY MaxJtiIsNat
  <2> QED
    BY <2>1, <2>2, <1>6
<1>10. ASSUME NEW r \in Requests, NEW t \in issued, NEW op \in BulkOps, BeginBulk(r, t, op)
       PROVE  IndInv'
  <2> DEFINE u == sessions[t.session].user
             q == [NoRequest EXCEPT !.pc = "bulk", !.op = op, !.user = u,
                                    !.seen = ActiveSessions(u)]
  <2> USE <1>10 DEF BeginBulk, Authenticates, ActiveHasUser, ActiveSessions, TokenPairs, NoRequest
  <2>1. q \in RequestStates
    BY DEF RequestStates
  <2>2. q.version <= lastJti
    BY MaxJtiIsNat
  <2> QED
    BY <2>1, <2>2, <1>6
<1>11. ASSUME NEW r \in Requests, TerminateRead(r)
       PROVE  IndInv'
  <2>1. CASE Respond(r)
    BY <1>11, <2>1, <1>5 DEF TerminateRead
  <2>2. CASE /\ requests[r].session \in ActiveSessions(requests[r].user)
             /\ requests' = [requests EXCEPT ![r].pc = "terminate"]
    <3> DEFINE q == [requests[r] EXCEPT !.pc = "terminate"]
    <3>1. q \in RequestStates
      BY DEF RequestStates
    <3>2. requests' = [requests EXCEPT ![r] = q] /\ UNCHANGED <<sessions, issued, lastJti>>
      BY <1>11, <2>2 DEF TerminateRead
    <3>3. /\ q.user \in Users /\ q.pc = "terminate" /\ q.session \in Sessions
          /\ sessions[q.session].user = q.user
          /\ \A s \in q.seen \cup q.rows \cup q.held : sessions[s].user = q.user
      BY <1>11, <2>2 DEF TerminateRead, RequestStates, RequestKeepsItsUser, ActiveSessions
    <3>4. \A s \in q.held : Active(s) /\ \A p \in Requests \ {r} : s \notin requests[p].held
      BY DEF RequestStates, LockedRowsAreHeld
    <3>5. q.version <= lastJti
      BY DEF RequestStates, NoneIsAhead
    <3> HIDE DEF q
    <3> QED
      BY <1>6, <3>1, <3>2, <3>3, <3>4, <3>5
  <2> QED
    BY <1>11, <2>1, <2>2 DEF TerminateRead
<1>12. ASSUME NEW r \in Requests, BulkStart(r)
       PROVE  IndInv'
  <2> DEFINE u == requests[r].user
             q == [requests[r] EXCEPT !.pc = "update", !.rows = ActiveSessions(u)]
  <2>1. q \in RequestStates
    BY ZenonT(30) DEF RequestStates, ActiveSessions
  <2>2. requests' = [requests EXCEPT ![r] = q] /\ UNCHANGED <<sessions, issued, lastJti>>
    BY <1>12 DEF BulkStart
  <2>3. /\ q.user \in Users /\ q.pc = "update"
        /\ \A s \in q.seen \cup q.rows \cup q.held : sessions[s].user = q.user
    BY <1>12 DEF BulkStart, RequestStates, RequestKeepsItsUser, ActiveSessions
  <2>4. \A s \in q.seen : Active(s) => s \in q.rows
    BY <2>3 DEF RequestStates, ActiveSessions
  <2>5. \A s \in q.held : Active(s) /\ \A p \in Requests \ {r} : s \notin requests[p].held
    BY DEF RequestStates, LockedRowsAreHeld
  <2>6. q.version <= lastJti
    BY DEF RequestStates, NoneIsAhead
  <2> HIDE DEF q
  <2> QED
    BY <2>1, <2>2, <2>3, <2>4, <2>5, <2>6, <1>6
<1>13. ASSUME NEW r \in Requests, NEW s \in Sessions, BulkLock(r, s)
       PROVE  IndInv'
  <2> DEFINE q == [requests[r] EXCEPT !.rows = @ \ {s},
                                      !.held = IF Active(s) THEN @ \cup {s} ELSE @]
  <2>1. q \in RequestStates
    BY ZenonT(30) DEF RequestStates
  <2>2. requests' = [requests EXCEPT ![r] = q] /\ UNCHANGED <<sessions, issued, lastJti>>
    BY <1>13 DEF BulkLock, RequestStates
  <2>3. /\ q.user \in Users /\ q.pc = "update"
        /\ \A x \in q.seen \cup q.rows \cup q.held : sessions[x].user = q.user
    BY <1>13 DEF BulkLock, RequestStates, RequestKeepsItsUser
  <2>4. \A x \in q.seen : Active(x) => x \in q.rows \cup q.held
    BY <1>13 DEF BulkLock, RequestStates, SeenArePicked
  <2>5. \A x \in q.held : Active(x) /\ \A p \in Requests \ {r} : x \notin requests[p].held
    BY <1>13 DEF BulkLock, Locked, RequestStates, LockedRowsAreHeld
  <2>6. q.version <= lastJti
    BY DEF RequestStates, NoneIsAhead
  <2> HIDE DEF q
  <2> QED
    BY <2>1, <2>2, <2>3, <2>4, <2>5, <2>6, <1>6
<1>14. CASE UNCHANGED vars
  BY <1>14 DEF vars, NoneIsAhead, TokensAreUnique, CurrentTokenIsIssued, ActiveHasUser,
               RequestKeepsItsUser, LockedRowsAreHeld, SeenArePicked, Active
<1> QED
  BY <1>1, <1>2, <1>3, <1>4, <1>5, <1>7, <1>8, <1>9, <1>10, <1>11, <1>12, <1>13, <1>14
  DEF Next, Abort

\* The shape of the tables and the invariant that explains it hold in every
\* reachable state, whatever order requests read, wait, write and fail in.
THEOREM Invariance == Spec => []IndInv
<1>1. Init => IndInv
  BY InitEstablishesIndInv
<1>2. IndInv /\ [Next]_vars => IndInv'
  BY NextPreservesIndInv
<1> QED
  BY <1>1, <1>2, PTL DEF Spec

\* Type correctness (models/session.py): no version and no hash is ahead of the minted tokens.
THEOREM TypeCorrectness == Spec => []TypeOK
<1>1. IndInv => TypeOK
  BY DEF IndInv
<1> QED
  BY <1>1, Invariance, PTL

-----------------------------------------------------------------------------
\* Exactly one refresh token is good for an open session, however many refreshes
\* read the same row before they write it (token_service.py, refresh_tokens).
THEOREM OneRefreshToken == Spec => []ActiveHasOneRefreshToken
<1>1. IndInv => ActiveHasOneRefreshToken
  <2> SUFFICES ASSUME IndInv, NEW s \in Sessions, Active(s)
               PROVE  \E t \in issued : \A u \in issued :
                        (u.session = s /\ RefreshAccepted(u)) <=> u = t
    BY DEF ActiveHasOneRefreshToken
  <2> DEFINE t == [session |-> s, version |-> sessions[s].token_version,
                   jti |-> sessions[s].refresh_token_hash]
  <2>1. t \in issued
    BY DEF IndInv, CurrentTokenIsIssued
  <2>2. ASSUME NEW u \in issued, u.session = s, RefreshAccepted(u)
        PROVE  u = t
    BY <2>1, <2>2 DEF IndInv, TokensAreUnique, RefreshAccepted
  <2>3. t.session = s /\ RefreshAccepted(t)
    BY DEF RefreshAccepted
  <2> QED
    BY <2>1, <2>2, <2>3
<1> QED
  BY <1>1, Invariance, PTL

\* Logout-all and change-password close every session of the user they saw open.
THEOREM BulkIsComplete == Spec => BulkClosesAllSeen
<1>1. ASSUME IndInv, NEW r \in Requests, BulkCommit(r), NEW s \in requests[r].seen
      PROVE  ~sessions'[s].is_active
  <2>1. /\ s \in Sessions
        /\ requests[r].pc = "update" /\ requests[r].rows = {}
        /\ sessions'[s] =
             IF s \in requests[r].held
             THEN [user |-> sessions[s].user, is_active |-> FALSE,
                   token_version |-> sessions[s].token_version,
                   refresh_token_hash |->
                     HashAfter(requests[r].op, sessions[s].refresh_token_hash)]
             ELSE sessions[s]
    BY <1>1 DEF BulkCommit, IndInv, TypeOK, RequestStates
  <2>2. CASE s \in requests[r].held
    BY <2>1, <2>2 DEF IndInv, TypeOK, SessionRows
  <2>3. CASE s \notin requests[r].held
    BY <1>1, <2>1, <2>3 DEF IndInv, SeenArePicked, Active
  <2> QED
    BY <2>2, <2>3
<1>2. IndInv => [\A r \in Requests : BulkCommit(r) =>
                   \A s \in requests[r].seen : ~sessions'[s].is_active]_vars
  BY <1>1
<1> QED
  BY <1>2, Invariance, PTL DEF BulkClosesAllSeen

(***************************************************************************)
(* Which step closes a session: it ends a request that was about to write  *)
(* the row, and that is authenticated as the row's user.                   *)
(***************************************************************************)
\* A session is closed only by a request that authenticated as its owner.
THEOREM OnlyOwnerCloses == Spec => ClosedByOwner
<1>1. ASSUME IndInv, [Next]_vars, NEW s \in Sessions, Active(s), ~Active(s)'
      PROVE  \E r \in Requests :
               /\ requests[r].pc \in {"logout", "terminate", "update"}
               /\ requests'[r].pc = "idle"
               /\ requests[r].user = sessions[s].user
  <2> USE DEF IndInv, TypeOK, Active, NoRequest
  <2>1. ASSUME NEW u \in Users, NEW x \in Sessions, OpenSession(u, x)
        PROVE  FALSE
    BY <1>1, <2>1 DEF OpenSession, SessionRows
  <2>2. ASSUME NEW r \in Requests, CommitRefresh(r)
        PROVE  FALSE
    BY <1>1, <2>2 DEF CommitRefresh, SessionRows
  <2>3. ASSUME NEW r \in Requests, CommitLogout(r) \/ CommitTerminate(r)
        PROVE  /\ requests[r].pc \in {"logout", "terminate"}
               /\ requests'[r].pc = "idle"
               /\ requests[r].user = sessions[s].user
    <3>1. /\ requests[r].pc \in {"logout", "terminate"}
          /\ requests'[r].pc = "idle"
          /\ s = requests[r].session
      BY <1>1, <2>3 DEF CommitLogout, CommitTerminate, Respond, SessionRows
    <3> QED
      BY <1>1, <3>1 DEF RequestKeepsItsUser
  <2>4. ASSUME NEW r \in Requests, BulkCommit(r)
        PROVE  /\ requests[r].pc = "update"
               /\ requests'[r].pc = "idle"
               /\ requests[r].user = sessions[s].user
    <3>1. /\ requests[r].pc = "update"
          /\ requests'[r].pc = "idle"
          /\ s \in requests[r].held
      BY <1>1, <2>4 DEF BulkCommit, Respond
    <3> QED
      BY <1>1, <3>1 DEF RequestKeepsItsUser
  <2>5. CASE UNCHANGED sessions
    BY <1>1, <2>5
  <2> QED
    BY <1>1, <2>1, <2>2, <2>3, <2>4, <2>5
    DEF Next, vars, BeginRefresh, BeginLogout, BeginTerminate, BeginBulk, TerminateRead,
        BulkStart, BulkLock, Abort
<1>2. IndInv /\ [Next]_vars =>
        [\A s \in Sessions : Active(s) /\ ~Active(s)' =>
           \E r \in Requests :
             /\ requests[r].pc \in {"logout", "terminate", "update"}
             /\ requests'[r].pc = "idle"
             /\ requests[r].user = sessions[s].user]_vars
  BY <1>1
<1> QED
  BY <1>2, Invariance, PTL DEF Spec, ClosedByOwner

-----------------------------------------------------------------------------
\* A new token pair adds one token, a fresh one, to those of the abstract service.
LEMMA IssueMints ==
  ASSUME IndInv, NEW s, NEW version, Issue(s, version)
  PROVE  Minted' = Minted \cup {lastJti + 1} /\ lastJti + 1 \notin Minted
<1> DEFINE t == [session |-> s, version |-> version, jti |-> lastJti + 1]
<1>1. issued' = issued \cup {t} /\ t.jti = lastJti + 1
  BY DEF Issue
<1> HIDE DEF t
<1>2. \A j : j \in Minted' <=> j \in Minted \/ j = lastJti + 1
  BY <1>1 DEF Minted
<1>3. lastJti + 1 \notin Minted
  BY DEF IndInv, TypeOK, TokensAreUnique, Minted
<1> QED
  BY <1>2, <1>3

\* Rows, requests and locks implement what SessionLifecycle promises: each commit
\* that changes a row is one of its steps, and every other step stutters.
THEOREM Refinement == Spec => ImplementsLifecycle
<1> USE DEF Phase, Current, Active
<1>1. Init => Lifecycle!LifecycleInit
  BY DEF Init, NoRow, Minted, Lifecycle!LifecycleInit
<1>2. ASSUME IndInv, [Next]_vars
      PROVE  [Lifecycle!LifecycleNext]_(Lifecycle!lifecycleVars)
  <2> USE <1>2 DEF IndInv, TypeOK
  <2>1. ASSUME NEW u \in Users, NEW s \in Sessions, OpenSession(u, s)
        PROVE  Lifecycle!LifecycleNext
    <3>1. lastJti + 1 \in 1..MaxJti
      BY <2>1, TokensLeftBound, MaxJtiIsNat DEF OpenSession
    <3> PICK j \in 1..MaxJti : j = lastJti + 1
      BY <3>1
    <3>2. Minted' = Minted \cup {j} /\ j \notin Minted
      BY <2>1, IssueMints DEF OpenSession
    <3>3. Phase[s] = "absent"
      BY <2>1 DEF OpenSession, NoRow
    <3>4. Phase' = [Phase EXCEPT ![s] = "open"]
      BY <2>1 DEF OpenSession
    <3>5. Current' = [Current EXCEPT ![s] = j]
      BY <2>1 DEF OpenSession
    <3>6. Lifecycle!Open(s, j)
      BY <3>2, <3>3, <3>4, <3>5 DEF Lifecycle!Open, Lifecycle!Mint
    <3> QED
      BY <3>6 DEF Lifecycle!LifecycleNext
  <2>2. ASSUME NEW r \in Requests, CommitRefresh(r)
        PROVE  Lifecycle!LifecycleNext
    <3>1. requests[r].session \in Sessions /\ lastJti + 1 \in 1..MaxJti
      BY <2>2, MaxJtiIsNat DEF CommitRefresh, RequestKeepsItsUser
    <3> PICK s \in Sessions, j \in 1..MaxJti : s = requests[r].session /\ j = lastJti + 1
      BY <3>1
    <3>2. Minted' = Minted \cup {j} /\ j \notin Minted
      BY <2>2, IssueMints DEF CommitRefresh
    <3>3. UNCHANGED Phase
      BY <2>2 DEF CommitRefresh, SessionRows
    <3>4. CASE Active(s)
      <4>1. Phase[s] = "open" /\ Current' = [Current EXCEPT ![s] = j]
        BY <2>2, <3>4 DEF CommitRefresh, SessionRows
      <4>2. Lifecycle!Rotate(s, j)
        BY <3>2, <3>3, <4>1 DEF Lifecycle!Rotate, Lifecycle!Mint
      <4> QED
        BY <4>2 DEF Lifecycle!LifecycleNext
    <3>5. CASE ~Active(s)
      <4>1. UNCHANGED Current
        BY <2>2, <3>5 DEF CommitRefresh, SessionRows
      <4>2. Lifecycle!MintDead(j)
        BY <3>2, <3>3, <4>1 DEF Lifecycle!MintDead, Lifecycle!Mint
      <4> QED
        BY <4>2 DEF Lifecycle!LifecycleNext
    <3> QED
      BY <3>4, <3>5
  <2>3. ASSUME NEW S \in SUBSET Sessions, UNCHANGED issued,
               \A s \in S : Active(s) /\ ~Active(s)',
               \A s \in Sessions : sessions'[s].user = sessions[s].user,
               \A s \in Sessions \ S :
                 Active(s)' = Active(s) /\ (Active(s) => sessions'[s] = sessions[s])
        PROVE  Lifecycle!LifecycleNext
    <3>1. \A s \in S : Phase[s] = "open"
      BY <2>3
    <3>2. Phase' = [s \in Sessions |-> IF s \in S THEN "closed" ELSE Phase[s]]
      BY <2>3, NoUserIsNoUser DEF ActiveHasUser
    <3>3. Current' = [s \in Sessions |-> IF s \in S THEN NoHash ELSE Current[s]]
      BY <2>3
    <3>4. UNCHANGED Minted
      BY <2>3 DEF Minted
    <3>5. Lifecycle!Close(S)
      BY <3>1, <3>2, <3>3, <3>4 DEF Lifecycle!Close
    <3> QED
      BY <3>5 DEF Lifecycle!LifecycleNext
  <2>4. ASSUME NEW r \in Requests, CommitLogout(r) \/ CommitTerminate(r)
        PROVE  Lifecycle!LifecycleNext
    <3>1. requests[r].session \in Sessions
      BY <2>4 DEF CommitLogout, CommitTerminate, RequestKeepsItsUser
    <3> PICK S \in SUBSET Sessions : S = {x \in {requests[r].session} : Active(x)}
      BY <3>1
    <3>2. UNCHANGED issued
      BY <2>4 DEF CommitLogout, CommitTerminate
    <3>3. \A s \in S : Active(s) /\ ~Active(s)'
      BY <2>4 DEF CommitLogout, CommitTerminate, SessionRows
    <3>4. \A s \in Sessions : sessions'[s].user = sessions[s].user
      BY <2>4 DEF CommitLogout, CommitTerminate, SessionRows
    <3>5. \A s \in Sessions \ S :
            Active(s)' = Active(s) /\ (Active(s) => sessions'[s] = sessions[s])
      BY ZenonT(30), <2>4 DEF CommitLogout, CommitTerminate, SessionRows
    <3> QED
      BY <2>3, <3>2, <3>3, <3>4, <3>5
  <2>5. ASSUME NEW r \in Requests, BulkCommit(r)
        PROVE  Lifecycle!LifecycleNext
    <3>1. requests[r].held \in SUBSET Sessions
      BY DEF RequestStates
    <3> PICK S \in SUBSET Sessions : S = requests[r].held
      BY <3>1
    <3>2. UNCHANGED issued
      BY <2>5 DEF BulkCommit
    <3>3. \A s \in S : Active(s) /\ ~Active(s)'
      BY <2>5 DEF BulkCommit, LockedRowsAreHeld
    <3>4. \A s \in Sessions : sessions'[s].user = sessions[s].user
      BY <2>5 DEF BulkCommit
    <3>5. \A s \in Sessions \ S : sessions'[s] = sessions[s]
      BY <2>5 DEF BulkCommit
    <3> QED
      BY <2>3, <3>2, <3>3, <3>4, <3>5
  <2>6. CASE UNCHANGED <<sessions, issued>>
    BY <2>6 DEF Minted, Lifecycle!lifecycleVars
  <2> QED
    BY <2>1, <2>2, <2>4, <2>5, <2>6
    DEF Next, vars, BeginRefresh, BeginLogout, BeginTerminate, BeginBulk, TerminateRead,
        BulkStart, BulkLock, Abort
<1> QED
  BY <1>1, <1>2, Invariance, PTL DEF Spec, ImplementsLifecycle, Lifecycle!LifecycleSpec
-----------------------------------------------------------------------------
(***************************************************************************)
(* Tokens that are not accepted any more.  For the refresh token the jti   *)
(* settles it, whatever overlaps.  For the access token it is the version, *)
(* and that takes two refreshes of one session that overlap.               *)
(***************************************************************************)
RotatedStaysRotated ==
  [][\A t \in issued : ~RefreshAccepted(t) => ~RefreshAccepted(t)']_vars

RefreshesAreApart ==
  \A p, q \in Requests :
    /\ requests[p].pc = "refresh" /\ requests[q].pc = "refresh"
    /\ requests[p].session = requests[q].session
    => p = q

\* The version of a session that a token was minted for only grows.
VersionsGrow ==
  /\ \A t \in issued :
       /\ sessions[t.session].user \in Users
       /\ t.version <= sessions[t.session].token_version
  /\ \A r \in Requests : requests[r].pc = "refresh" =>
       requests[r].version = sessions[requests[r].session].token_version

(***************************************************************************)
(* What a step does to a row: it inserts it; a refresh gives it a new hash *)
(* and the version that was read, plus one; or it leaves an open row as it *)
(* was, and version and user of a closed one.                              *)
(***************************************************************************)
LEMMA RowSteps ==
  ASSUME IndInv, [Next]_vars, NEW s \in Sessions
  PROVE  \/ sessions[s] = NoRow /\ sessions'[s].refresh_token_hash = lastJti + 1
         \/ \E r \in Requests :
              /\ CommitRefresh(r) /\ s = requests[r].session
              /\ sessions'[s].user = sessions[s].user
              /\ sessions'[s].is_active = sessions[s].is_active
              /\ sessions'[s].token_version = requests[r].version + 1
              /\ sessions'[s].refresh_token_hash = lastJti + 1
         \/ /\ sessions'[s].user = sessions[s].user
            /\ sessions'[s].token_version = sessions[s].token_version
            /\ Active(s)' => sessions'[s] = sessions[s]
<1> USE DEF IndInv, TypeOK
<1>1. ASSUME NEW u \in Users, NEW x \in Sessions, OpenSession(u, x)
      PROVE  \/ sessions[s] = NoRow /\ sessions'[s].refresh_token_hash = lastJti + 1
             \/ sessions'[s] = sessions[s]
  BY <1>1 DEF OpenSession
<1>2. ASSUME NEW r \in Requests, CommitRefresh(r)
      PROVE  \/ /\ s = requests[r].session
                /\ sessions'[s].user = sessions[s].user
                /\ sessions'[s].is_active = sessions[s].is_active
                /\ sessions'[s].token_version = requests[r].version + 1
                /\ sessions'[s].refresh_token_hash = lastJti + 1
             \/ sessions'[s] = sessions[s]
  BY <1>2 DEF CommitRefresh, SessionRows
<1>3. ASSUME NEW r \in Requests, CommitLogout(r) \/ CommitTerminate(r)
      PROVE  /\ sessions'[s].user = sessions[s].user
             /\ sessions'[s].token_version = sessions[s].token_version
             /\ Active(s)' => sessions'[s] = sessions[s]
  <2>1. \/ sessions'[s] = [sessions[s] EXCEPT !.is_active = FALSE, !.refresh_token_hash = NoHash]
        \/ sessions'[s] = sessions[s]
    BY <1>3 DEF CommitLogout, CommitTerminate
  <2> QED
    BY <2>1 DEF SessionRows, Active
<1>4. ASSUME NEW r \in Requests, BulkCommit(r)
      PROVE  /\ sessions'[s].user = sessions[s].user
             /\ sessions'[s].token_version = sessions[s].token_version
             /\ Active(s)' => sessions'[s] = sessions[s]
  BY <1>4 DEF BulkCommit, Active
<1>5. CASE UNCHANGED sessions
  BY <1>5
<1> QED
  BY <1>1, <1>2, <1>3, <1>4, <1>5
  DEF Next, vars, BeginRefresh, BeginLogout, BeginTerminate, BeginBulk, TerminateRead,
      BulkStart, BulkLock, Abort

\* A refresh token that was rotated, or whose session was closed, is never accepted
\* again, whatever overlaps (token_service.py, lines 85-89).
THEOREM RotationIsFinal == Spec => RotatedStaysRotated
<1>1. ASSUME IndInv, [Next]_vars, NEW t \in issued, RefreshAccepted(t)'
      PROVE  RefreshAccepted(t)
  <2> USE DEF IndInv, TypeOK, TokenPairs
  <2>1. /\ t.session \in Sessions
        /\ sessions'[t.session].refresh_token_hash # lastJti + 1
        /\ Active(t.session)'
    BY <1>1 DEF RefreshAccepted, TokensAreUnique
  <2>2. sessions'[t.session] = sessions[t.session]
    BY <1>1, <2>1, RowSteps
  <2> QED
    BY <1>1, <2>2 DEF RefreshAccepted, Active
<1>2. IndInv /\ [Next]_vars =>
        [\A t \in issued : ~RefreshAccepted(t) => ~RefreshAccepted(t)']_vars
  BY <1>1
<1> QED
  BY <1>2, Invariance, PTL DEF Spec, RotatedStaysRotated

\* Apart, refreshes number the versions of a session one after the other.
LEMMA NextKeepsVersions ==
  ASSUME IndInv, RefreshesAreApart, VersionsGrow, [Next]_vars
  PROVE  VersionsGrow'
<1> USE DEF IndInv, TypeOK, TokenPairs, VersionsGrow
<1>1. ASSUME NEW s \in Sessions, sessions[s].user \in Users
      PROVE  /\ sessions'[s].user = sessions[s].user
             /\ sessions'[s].token_version >= sessions[s].token_version
             /\ \/ sessions'[s].token_version = sessions[s].token_version
                \/ \E q \in Requests : CommitRefresh(q) /\ s = requests[q].session
  <2>1. sessions[s] # NoRow
    BY <1>1, NoUserIsNoUser DEF NoRow
  <2>2. ASSUME NEW r \in Requests, CommitRefresh(r), s = requests[r].session,
               sessions'[s].token_version = requests[r].version + 1
        PROVE  sessions'[s].token_version >= sessions[s].token_version
    BY <2>2 DEF CommitRefresh, SessionRows
  <2>3. sessions[s].token_version \in Nat
    BY DEF SessionRows
  <2> QED
    BY <2>1, <2>2, <2>3, RowSteps
<1>2. ASSUME NEW t \in issued', t \notin issued
      PROVE  /\ sessions'[t.session].user \in Users
             /\ t.version <= sessions'[t.session].token_version
  <2>1. ASSUME NEW u \in Users, NEW s \in Sessions, OpenSession(u, s)
        PROVE  /\ sessions'[t.session].user \in Users
               /\ t.version <= sessions'[t.session].token_version
    <3>1. t.session = s /\ t.version = 1
      BY <1>2, <2>1 DEF OpenSession, Issue
    <3> QED
      BY <2>1, <3>1 DEF OpenSession
  <2>2. ASSUME NEW r \in Requests, CommitRefresh(r)
        PROVE  /\ sessions'[t.session].user \in Users
               /\ t.version <= sessions'[t.session].token_version
    <3>1. /\ t.session = requests[r].session
          /\ t.version = requests[r].version + 1
      BY <1>2, <2>2 DEF CommitRefresh, Issue
    <3>2. /\ requests[r].session \in Sessions
          /\ sessions[requests[r].session].user \in Users
          /\ requests[r].version \in Nat
      BY <2>2 DEF CommitRefresh, RequestKeepsItsUser, RequestStates
    <3>3. /\ sessions'[t.session].user = sessions[t.session].user
          /\ sessions'[t.session].token_version = requests[r].version + 1
      BY <2>2, <3>1, <3>2 DEF CommitRefresh, SessionRows
    <3> QED
      BY <3>1, <3>2, <3>3
  <2>3. CASE UNCHANGED issued
    BY <1>2, <2>3
  <2> QED
    BY <2>1, <2>2, <2>3
    DEF Next, vars, BeginRefresh, BeginLogout, BeginTerminate, BeginBulk, CommitLogout,
        TerminateRead, CommitTerminate, BulkStart, BulkLock, BulkCommit, Abort
<1>3. ASSUME NEW t \in issued
      PROVE  /\ sessions'[t.session].user \in Users
             /\ t.version <= sessions'[t.session].token_version
  <2>1. /\ t.session \in Sessions /\ t.version \in Nat
        /\ sessions[t.session].token_version \in Nat
    BY DEF SessionRows
  <2>2. sessions'[t.session].token_version \in Nat
    BY <2>1, NextPreservesIndInv DEF SessionRows
  <2> QED
    BY <1>1, <2>1, <2>2
<1>4. ASSUME NEW r \in Requests, requests'[r].pc = "refresh"
      PROVE  requests'[r].version = sessions'[requests'[r].session].token_version
  <2>1. \/ requests'[r] = requests[r]
        \/ \E t \in issued : BeginRefresh(r, t)
    <3> USE DEF NoRequest, RequestStates
    <3>1. ASSUME NEW q \in Requests, Respond(q)
          PROVE  requests'[r] = requests[r]
      BY <1>4, <3>1 DEF Respond
    <3>2. ASSUME NEW q \in Requests, NEW t \in issued, BeginRefresh(q, t)
          PROVE  requests'[r] = requests[r] \/ BeginRefresh(r, t)
      BY <3>2 DEF BeginRefresh
    <3>3. ASSUME NEW q \in Requests, NEW t \in issued,
                 \/ BeginLogout(q, t) \/ \E x \in Sessions : BeginTerminate(q, t, x)
                 \/ \E op \in BulkOps : BeginBulk(q, t, op)
          PROVE  requests'[r] = requests[r]
      <4>1. CASE BeginLogout(q, t)
        BY <1>4, <4>1 DEF BeginLogout
      <4>2. CASE \E x \in Sessions : BeginTerminate(q, t, x)
        BY <1>4, <4>2 DEF BeginTerminate
      <4>3. CASE \E op \in BulkOps : BeginBulk(q, t, op)
        BY <1>4, <4>3 DEF BeginBulk
      <4> QED
        BY <3>3, <4>1, <4>2, <4>3
    <3>4. ASSUME NEW q \in Requests,
                 TerminateRead(q) \/ BulkStart(q) \/ \E x \in Sessions : BulkLock(q, x)
          PROVE  requests'[r] = requests[r]
      <4>1. CASE TerminateRead(q)
        BY <1>4, <3>1, <4>1 DEF TerminateRead
      <4>2. CASE BulkStart(q)
        BY <1>4, <4>2 DEF BulkStart
      <4>3. CASE \E x \in Sessions : BulkLock(q, x)
        BY <1>4, <4>3 DEF BulkLock
      <4> QED
        BY <3>4, <4>1, <4>2, <4>3
    <3>5. CASE UNCHANGED requests
      BY <3>5
    <3> QED
      BY <3>1, <3>2, <3>3, <3>4, <3>5
      DEF Next, vars, OpenSession, CommitRefresh, CommitLogout, CommitTerminate, BulkCommit, Abort
  <2>2. CASE requests'[r] = requests[r]
    <3>1. /\ requests[r].pc = "refresh" /\ requests[r].session \in Sessions
          /\ sessions[requests[r].session].user \in Users
      BY <1>4, <2>2 DEF RequestKeepsItsUser
    <3>2. ASSUME NEW q \in Requests, CommitRefresh(q), requests[r].session = requests[q].session
          PROVE  FALSE
      <4>1. q = r
        BY <3>1, <3>2 DEF CommitRefresh, RefreshesAreApart
      <4> QED
        BY <1>4, <3>2, <4>1 DEF CommitRefresh, Respond, NoRequest
    <3> QED
      BY <1>1, <2>2, <3>1, <3>2
  <2>3. CASE \E t \in issued : BeginRefresh(r, t)
    <3>1. PICK t \in issued : BeginRefresh(r, t)
      BY <2>3
    <3>2. requests'[r].session = t.session /\ requests'[r].version = t.version
      BY <3>1 DEF BeginRefresh, NoRequest
    <3> QED
      BY <3>1, <3>2 DEF BeginRefresh, RefreshAccepted
  <2> QED
    BY <2>1, <2>2, <2>3
<1> QED
  BY <1>2, <1>3, <1>4

\* exceptions.py, line 113, "Token has been revoked": an access token that is not accepted
\* is never accepted again, unless two refreshes of its session overlapped
\* (token_service.py, lines 75 and 101).
THEOREM TokenRevivalNeedsOverlap ==
  Spec /\ []RefreshesAreApart => RevokedStaysRevoked
<1>1. Init => VersionsGrow
  BY DEF Init, NoRequest, VersionsGrow
<1>2. IndInv /\ RefreshesAreApart /\ VersionsGrow /\ [Next]_vars => VersionsGrow'
  BY NextKeepsVersions
<1>3. ASSUME IndInv, VersionsGrow, [Next]_vars, NEW t \in issued, Authenticates(t)'
      PROVE  Authenticates(t)
  <2> USE DEF IndInv, TypeOK, TokenPairs
  <2>1. /\ t.session \in Sessions /\ t.version \in Nat
        /\ sessions[t.session].token_version \in Nat
        /\ sessions[t.session] # NoRow
        /\ t.version <= sessions[t.session].token_version
        /\ sessions'[t.session].token_version = t.version
        /\ Active(t.session)'
    BY <1>3, NoUserIsNoUser DEF Authenticates, VersionsGrow, SessionRows, NoRow
  <2>2. ASSUME NEW r \in Requests, CommitRefresh(r), t.session = requests[r].session,
               sessions'[t.session].token_version = requests[r].version + 1
        PROVE  FALSE
    <3>1. requests[r].version = sessions[t.session].token_version
      BY <1>3, <2>2 DEF CommitRefresh, VersionsGrow
    <3> QED
      BY <2>1, <2>2, <3>1
  <2>3. sessions'[t.session] = sessions[t.session]
    BY <1>3, <2>1, <2>2, RowSteps
  <2> QED
    BY <1>3, <2>3 DEF Authenticates, Active
<1>4. IndInv /\ VersionsGrow /\ [Next]_vars =>
        [\A t \in issued : ~Authenticates(t) => ~Authenticates(t)']_vars
  BY <1>3
<1> QED
  BY <1>1, <1>2, <1>4, Invariance, PTL DEF Spec, RevokedStaysRevoked

-----------------------------------------------------------------------------
(***************************************************************************)
(* Who waits for whom.  Only bulk updates hold rows and wait for others,   *)
(* and none waits for a row of its own.                                    *)
(***************************************************************************)
OnlyUpdatesHold ==
  \A r \in Requests :
    /\ requests[r].held # {} => requests[r].pc = "update"
    /\ requests[r].rows \cap requests[r].held = {}

\* The guards of BulkLock, for some row, and of BulkCommit.
CanGoOn(r) ==
  /\ requests[r].pc = "update"
  /\ requests[r].rows = {} \/ \E s \in requests[r].rows : ~Locked(s)

\* Who holds rows is in a circle of waits, or somebody who holds rows can go on.
StuckOnlyByDeadlock ==
  \A r \in Requests : requests[r].held # {} =>
    Deadlocked(r) \/ \E q \in Requests : requests[q].held # {} /\ CanGoOn(q)

\* What a request that goes on holds, and is still to lock.
LEMMA NextKeepsHolders ==
  ASSUME TypeOK, OnlyUpdatesHold, [Next]_vars
  PROVE  OnlyUpdatesHold'
<1> USE DEF TypeOK, RequestStates, OnlyUpdatesHold, NoRequest
<1>1. ASSUME NEW r \in Requests, Respond(r)
      PROVE  OnlyUpdatesHold'
  BY <1>1 DEF Respond
<1>2. ASSUME NEW r \in Requests,
             requests'[r].held = {}, \A q \in Requests \ {r} : requests'[q] = requests[q]
      PROVE  OnlyUpdatesHold'
  BY <1>2
<1>3. ASSUME NEW r \in Requests, NEW t \in issued, BeginRefresh(r, t) \/ BeginLogout(r, t)
      PROVE  OnlyUpdatesHold'
  <2>1. CASE BeginRefresh(r, t)
    BY <1>2, <2>1 DEF BeginRefresh
  <2>2. CASE BeginLogout(r, t)
    BY <1>2, <2>2 DEF BeginLogout
  <2> QED
    BY <1>3, <2>1, <2>2
<1>4. ASSUME NEW r \in Requests, NEW t \in issued, NEW x \in Sessions, BeginTerminate(r, t, x)
      PROVE  OnlyUpdatesHold'
  BY <1>2, <1>4 DEF BeginTerminate
<1>5. ASSUME NEW r \in Requests, NEW t \in issued, NEW op \in BulkOps, BeginBulk(r, t, op)
      PROVE  OnlyUpdatesHold'
  BY <1>2, <1>5 DEF BeginBulk
<1>6. ASSUME NEW r \in Requests, TerminateRead(r)
      PROVE  OnlyUpdatesHold'
  <2>1. CASE Respond(r)
    BY <1>1, <2>1
  <2>2. CASE requests' = [requests EXCEPT ![r].pc = "terminate"]
    <3>1. requests[r].held = {}
      BY <1>6 DEF TerminateRead
    <3>2. requests'[r].held = {} /\ \A q \in Requests \ {r} : requests'[q] = requests[q]
      BY <2>2, <3>1
    <3> QED
      BY <1>2, <3>2
  <2> QED
    BY <1>6, <2>1, <2>2 DEF TerminateRead
<1>7. ASSUME NEW r \in Requests, BulkStart(r)
      PROVE  OnlyUpdatesHold'
  <2>1. requests[r].held = {}
    BY <1>7 DEF BulkStart
  <2>2. requests'[r].held = {} /\ \A q \in Requests \ {r} : requests'[q] = requests[q]
    BY <1>7, <2>1 DEF BulkStart
  <2> QED
    BY <1>2, <2>2
<1>8. ASSUME NEW r \in Requests, NEW s \in Sessions, BulkLock(r, s)
      PROVE  OnlyUpdatesHold'
  <2>1. /\ requests'[r].pc = "update"
        /\ requests'[r].rows = requests[r].rows \ {s}
        /\ requests'[r].held \subseteq requests[r].held \cup {s}
        /\ \A q \in Requests \ {r} : requests'[q] = requests[q]
    BY <1>8 DEF BulkLock
  <2> QED
    BY <2>1
<1>9. CASE UNCHANGED requests
  BY <1>9
<1> QED
  BY <1>1, <1>3, <1>4, <1>5, <1>6, <1>7, <1>8, <1>9
  DEF Next, vars, OpenSession, CommitRefresh, CommitLogout, CommitTerminate, BulkCommit, Abort

\* A row is never locked for good: some bulk update that holds rows can take its next step,
\* or they are in a circle, which PostgreSQL breaks (token_service.py, lines 126-130;
\* auth_service.py, lines 203-207).
THEOREM WaitsEndOrDeadlock == Spec => []StuckOnlyByDeadlock
<1>1. Init => OnlyUpdatesHold
  BY DEF Init, NoRequest, OnlyUpdatesHold
<1>2. TypeOK /\ OnlyUpdatesHold /\ [Next]_vars => OnlyUpdatesHold'
  BY NextKeepsHolders
<1>3. TypeOK /\ OnlyUpdatesHold => StuckOnlyByDeadlock
  <2> SUFFICES ASSUME TypeOK, OnlyUpdatesHold, NEW r \in Requests, requests[r].held # {},
                      \A q \in Requests : requests[q].held # {} => ~CanGoOn(q)
               PROVE  Deadlocked(r)
    BY DEF StuckOnlyByDeadlock
  <2> DEFINE waiting == {q \in Requests : requests[q].held # {}}
  <2>1. ASSUME NEW q \in waiting
        PROVE  /\ requests[q].pc = "update" /\ requests[q].rows # {}
               /\ \A s \in requests[q].rows : \E p \in waiting \ {q} : s \in requests[p].held
    BY DEF OnlyUpdatesHold, CanGoOn, Locked
  <2>2. waiting \in SUBSET Requests /\ r \in waiting
    OBVIOUS
  <2>3. \A q \in waiting :
          requests[q].rows \subseteq UNION {requests[p].held : p \in waiting \ {q}}
    BY <2>1
  <2> HIDE DEF waiting
  <2> QED
    BY <2>1, <2>2, <2>3 DEF Deadlocked
<1> QED
  BY <1>1, <1>2, <1>3, TypeCorrectness, PTL DEF Spec

=============================================================================
