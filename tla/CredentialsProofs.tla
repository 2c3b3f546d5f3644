--------------------------- MODULE CredentialsProofs ---------------------------
(***************************************************************************)
(* What overlapping logins and changes may do to the password and to the   *)
(* sessions, for any number of each: IndInv of Credentials is inductive.   *)
(***************************************************************************)
EXTENDS Credentials, TLAPS

LEMMA InitEstablishesIndInv == Init => IndInv
BY NoPasswordIsNone
   DEF Init, IndInv, TypeOK, Accounts, SessionRows, NoRow, RequestStates, NoRequest, Open,
       LoggingIn, Closing, Holds, OnlyOverlappingLoginsSurvive, OnlyRehashRevives,
       LoginsAreUpToDate, OneOutdatedPassword, ClosingIsComplete

\* Steps that leave the account and the sessions alone: only r moves, to q, which has
\* verified nothing that is out of date, and will close what it has to.
LEMMA RequestMoves ==
  ASSUME IndInv, NEW r \in Requests, NEW q \in RequestStates,
         requests' = [requests EXCEPT ![r] = q], UNCHANGED <<account, chosen, sessions>>,
         q.pc # "idle" => q.password # NoPassword,
         q.pc \in {"verified", "flushed"} =>
           q.overlapped \/ q.password \in {account.password, chosen},
         q.outdated =>
           /\ q.pc \in {"verified", "flushed"}
           /\ account.outdated \/ account.password # chosen => q.password = account.password
           /\ \A p \in Requests : requests[p].outdated => requests[p].password = q.password,
         q.pc \in {"closing", "closed", "updated"} =>
           \A s \in Open \ q.closing : sessions[s].overlapped,
         q.pc \in {"closed", "updated"} =>
           \A p \in Requests \ {r} : Holds(p) \cap q.closing = {}
  PROVE  IndInv'
<1>1. /\ requests \in [Requests -> RequestStates]
      /\ requests'[r] = q
      /\ \A p \in Requests \ {r} : requests'[p] = requests[p]
      /\ requests' \in [Requests -> RequestStates]
  BY DEF IndInv, TypeOK
<1>2. Open' = Open
  BY DEF Open
<1>3. TypeOK'
  <2>1. \A p \in Requests \ {r} : Holds(p)' = Holds(p)
    BY <1>1 DEF Holds
  <2>2. Holds(r)' = IF q.pc \in {"closed", "updated"} THEN q.closing ELSE {}
    BY <1>1 DEF Holds
  <2>3. \A p1, p2 \in Requests : Holds(p1)' \cap Holds(p2)' # {} => p1 = p2
    BY <2>1, <2>2 DEF IndInv, TypeOK
  <2> QED
    BY <1>1, <1>2, <2>3 DEF IndInv, TypeOK
<1>4. LoginsAreUpToDate'
  BY <1>1 DEF IndInv, LoginsAreUpToDate, LoggingIn
<1>5. OneOutdatedPassword'
  BY <1>1 DEF IndInv, OneOutdatedPassword, LoggingIn
<1>6. ClosingIsComplete'
  BY <1>1, <1>2 DEF IndInv, ClosingIsComplete, Closing
<1>7. OnlyOverlappingLoginsSurvive' /\ OnlyRehashRevives'
  BY <1>2 DEF IndInv, OnlyOverlappingLoginsSurvive, OnlyRehashRevives
<1> QED
  BY <1>3, <1>4, <1>5, <1>6, <1>7 DEF IndInv

LEMMA LoginReadPreserves ==
  ASSUME IndInv, NEW r \in Requests, LoginRead(r)
  PROVE  IndInv'
<1>1. PICK q : q = [NoRequest EXCEPT !.pc = "verified", !.password = account.password,
                                     !.outdated = account.outdated]
  OBVIOUS
<1>2. account \in Accounts
  BY DEF IndInv, TypeOK
<1>3. /\ q.pc = "verified" /\ q.password = account.password /\ q.outdated = account.outdated
      /\ q \in RequestStates
  BY <1>1, <1>2 DEF NoRequest, RequestStates, Accounts
<1>4. requests' = [requests EXCEPT ![r] = q] /\ UNCHANGED <<account, chosen, sessions>>
  BY <1>1 DEF LoginRead
<1>5. q.password # NoPassword
  BY <1>2, <1>3, NoPasswordIsNone DEF Accounts
<1>6. \A p \in Requests : q.outdated /\ requests[p].outdated => requests[p].password = q.password
  BY <1>3 DEF IndInv, OneOutdatedPassword
<1> QED
  BY <1>3, <1>4, <1>5, <1>6, RequestMoves

\* A request that only goes on, and one that is given up.
LEMMA GoingOnPreserves ==
  ASSUME IndInv, NEW r \in Requests,
         LoginFlush(r) \/ ChangeFlush(r) \/ ChangeStart(r) \/ ChangeClose(r) \/ Abort(r)
  PROVE  IndInv'
<1>1. /\ requests \in [Requests -> RequestStates] /\ requests[r] \in RequestStates
      /\ NoRequest \in RequestStates
  BY DEF IndInv, TypeOK, NoRequest, RequestStates
<1>2. CASE LoginFlush(r)
  <2>1. PICK q : q = [requests[r] EXCEPT !.pc = "flushed"]
    OBVIOUS
  <2>2. /\ requests' = [requests EXCEPT ![r] = q] /\ UNCHANGED <<account, chosen, sessions>>
        /\ requests[r].pc = "verified"
    BY <1>2, <2>1 DEF LoginFlush, Goto
  <2>3. /\ q \in RequestStates /\ q.pc = "flushed" /\ q.password = requests[r].password
        /\ q.outdated = requests[r].outdated /\ q.overlapped = requests[r].overlapped
    BY <1>1, <2>1 DEF RequestStates
  <2>4. r \in LoggingIn
    BY <2>2 DEF LoggingIn
  <2> QED
    BY <2>2, <2>3, <2>4, RequestMoves DEF IndInv, TypeOK, LoginsAreUpToDate, OneOutdatedPassword
<1>3. CASE ChangeFlush(r)
  <2>1. PICK q : q = [requests[r] EXCEPT !.pc = "updated"]
    OBVIOUS
  <2>2. /\ requests' = [requests EXCEPT ![r] = q] /\ UNCHANGED <<account, chosen, sessions>>
        /\ requests[r].pc = "closed"
    BY <1>3, <2>1 DEF ChangeFlush, Goto
  <2>3. /\ q \in RequestStates /\ q.pc = "updated" /\ q.password = requests[r].password
        /\ q.outdated = requests[r].outdated /\ q.closing = requests[r].closing
    BY <1>1, <2>1 DEF RequestStates
  <2>4. r \notin LoggingIn /\ r \in Closing /\ Holds(r) = q.closing
    BY <2>2, <2>3 DEF LoggingIn, Closing, Holds
  <2>5. \A p \in Requests \ {r} : Holds(p) \cap q.closing = {}
    BY <2>4 DEF IndInv, TypeOK
  <2> QED
    BY <2>2, <2>3, <2>4, <2>5, RequestMoves
       DEF IndInv, TypeOK, OneOutdatedPassword, ClosingIsComplete
<1>4. CASE ChangeStart(r)
  <2>1. PICK q : q = [requests[r] EXCEPT !.pc = "closing", !.closing = Open]
    OBVIOUS
  <2>2. /\ requests' = [requests EXCEPT ![r] = q] /\ UNCHANGED <<account, chosen, sessions>>
        /\ requests[r].pc = "checked"
    BY <1>1, <1>4, <2>1 DEF ChangeStart
  <2>3. /\ q \in RequestStates /\ q.pc = "closing" /\ q.password = requests[r].password
        /\ q.outdated = requests[r].outdated /\ q.closing = Open
    BY <1>1, <2>1 DEF RequestStates, Open
  <2>4. r \notin LoggingIn
    BY <2>2 DEF LoggingIn
  <2> QED
    BY <2>2, <2>3, <2>4, RequestMoves DEF IndInv, TypeOK, OneOutdatedPassword
<1>5. CASE ChangeClose(r)
  <2>1. PICK q : q = [requests[r] EXCEPT !.pc = "closed",
                                         !.closing = requests[r].closing \cap Open]
    OBVIOUS
  <2>2. /\ requests' = [requests EXCEPT ![r] = q] /\ UNCHANGED <<account, chosen, sessions>>
        /\ requests[r].pc = "closing"
        /\ \A p \in Requests \ {r} : Holds(p) \cap requests[r].closing = {}
    BY <1>1, <1>5, <2>1 DEF ChangeClose
  <2>3. /\ q \in RequestStates /\ q.pc = "closed" /\ q.password = requests[r].password
        /\ q.outdated = requests[r].outdated /\ q.closing = requests[r].closing \cap Open
    BY <1>1, <2>1 DEF RequestStates
  <2>4. r \notin LoggingIn /\ r \in Closing
    BY <2>2 DEF LoggingIn, Closing
  <2>5. \A s \in Open \ q.closing : sessions[s].overlapped
    BY <2>3, <2>4 DEF IndInv, ClosingIsComplete
  <2>6. \A p \in Requests \ {r} : Holds(p) \cap q.closing = {}
    BY <2>2, <2>3
  <2> QED
    BY <2>2, <2>3, <2>4, <2>5, <2>6, RequestMoves DEF IndInv, TypeOK, OneOutdatedPassword
<1>6. CASE Abort(r)
  <2>1. requests' = [requests EXCEPT ![r] = NoRequest] /\ UNCHANGED <<account, chosen, sessions>>
    BY <1>6 DEF Abort, Respond
  <2>2. NoRequest.pc = "idle" /\ NoRequest.outdated = FALSE
    BY DEF NoRequest
  <2> QED
    BY <1>1, <2>1, <2>2, RequestMoves
<1> QED
  BY <1>2, <1>3, <1>4, <1>5, <1>6

LEMMA ChangeReadPreserves ==
  ASSUME IndInv, NEW r \in Requests, NEW new \in Passwords, ChangeRead(r, new)
  PROVE  IndInv'
<1>1. PICK q : q = [NoRequest EXCEPT !.pc = "checked", !.password = new]
  OBVIOUS
<1>2. q \in RequestStates /\ q.pc = "checked" /\ q.password = new /\ q.outdated = FALSE
  BY <1>1 DEF NoRequest, RequestStates
<1>3. requests' = [requests EXCEPT ![r] = q] /\ UNCHANGED <<account, chosen, sessions>>
  BY <1>1 DEF ChangeRead
<1> QED
  BY <1>2, <1>3, NoPasswordIsNone, RequestMoves

-------------------------------------------------------------------------------
\* A login that ends opens a session that no change in flight has seen, and may put the
\* one outdated password back.
LEMMA LoginCommitPreserves ==
  ASSUME IndInv, NEW r \in Requests, LoginCommit(r)
  PROVE  IndInv'
<1>1. /\ requests \in [Requests -> RequestStates] /\ sessions \in [Sessions -> SessionRows]
      /\ account \in Accounts /\ chosen \in Passwords
      /\ requests[r] \in RequestStates
      /\ requests[r].pc = "flushed" /\ r \in LoggingIn /\ r \notin Closing
      /\ requests[r].password \in Passwords
  BY DEF IndInv, TypeOK, LoginCommit, LoggingIn, Closing, RequestStates
<1>2. PICK s \in Sessions :
        sessions[s].state = "absent" /\ sessions' = [sessions EXCEPT ![s] = NewSession(r)]
  BY DEF LoginCommit
<1>3. PICK row : row = NewSession(r)
  OBVIOUS
<1>4. /\ row \in SessionRows /\ row.state = "open" /\ row.password = requests[r].password
      /\ row.rehashed = requests[r].outdated
      /\ row.overlapped <=> requests[r].overlapped \/ Closing # {}
  BY <1>1, <1>3 DEF NewSession, SessionRows, RequestStates
<1>5. /\ sessions' \in [Sessions -> SessionRows] /\ sessions'[s] = row
      /\ \A t \in Sessions \ {s} : sessions'[t] = sessions[t]
      /\ Open' = Open \cup {s} /\ s \notin Open
  BY <1>1, <1>2, <1>3, <1>4 DEF Open
<1>6. /\ requests' = [requests EXCEPT ![r] = NoRequest]
      /\ requests' \in [Requests -> RequestStates] /\ requests'[r] = NoRequest
      /\ \A p \in Requests \ {r} : requests'[p] = requests[p]
      /\ chosen' = chosen
      /\ NoRequest.pc = "idle" /\ NoRequest.outdated = FALSE
  BY <1>1 DEF LoginCommit, Respond, NoRequest, RequestStates
<1>7. account' \in Accounts /\ account'.outdated \in {account.outdated, FALSE}
  BY <1>1 DEF LoginCommit, Accounts
<1>8. \/ account' = account /\ ~requests[r].outdated
      \/ /\ account'.password = requests[r].password /\ ~account'.outdated
         /\ requests[r].outdated
  BY <1>1 DEF LoginCommit
<1>9. \A p : p \in {account.password, chosen} => p \in {account'.password, chosen'}
  BY <1>6, <1>8 DEF IndInv, OneOutdatedPassword
<1>10. Closing' = Closing /\ LoggingIn' = LoggingIn \ {r}
  BY <1>1, <1>6 DEF Closing, LoggingIn
<1>11. TypeOK'
  <2>1. \A p \in Requests : Holds(p)' = Holds(p)
    BY <1>1, <1>6 DEF Holds
  <2>2. \A t \in Open' : sessions'[t].password # NoPassword
    <3>1. sessions'[s].password # NoPassword
      BY <1>1, <1>4, <1>5, NoPasswordIsNone
    <3>2. \A t \in Open : t \in Sessions \ {s} /\ sessions[t].password # NoPassword
      BY <1>5 DEF IndInv, TypeOK, Open
    <3> QED
      BY <1>5, <3>1, <3>2
  <2>4. \A t \in Sessions : sessions'[t].state = "absent" => sessions'[t] = NoRow
    BY <1>4, <1>5 DEF IndInv, TypeOK
  <2>3. \A p \in Requests : requests'[p].pc # "idle" => requests'[p].password # NoPassword
    BY <1>6 DEF IndInv, TypeOK
  <2> QED
    BY <1>1, <1>5, <1>6, <1>7, <2>1, <2>2, <2>3, <2>4 DEF IndInv, TypeOK
<1>12. OnlyOverlappingLoginsSurvive'
  <2>1. row.overlapped \/ row.password \in {account'.password, chosen'}
    BY <1>1, <1>4, <1>9 DEF IndInv, LoginsAreUpToDate
  <2>2. \A t \in Open : t \in Sessions \ {s}
                        /\ (sessions[t].overlapped \/ sessions[t].password \in {account.password, chosen})
    BY <1>5 DEF IndInv, OnlyOverlappingLoginsSurvive, Open
  <2>3. \A t \in Open : sessions'[t].overlapped \/ sessions'[t].password \in {account'.password, chosen'}
    BY <1>5, <1>9, <2>2
  <2> QED
    BY <1>4, <1>5, <2>1, <2>3 DEF OnlyOverlappingLoginsSurvive
<1>13. OnlyRehashRevives'
  <2> SUFFICES ASSUME account'.password # chosen'
               PROVE  \E t \in Sessions :
                        /\ sessions'[t].overlapped /\ sessions'[t].rehashed
                        /\ sessions'[t].password = account'.password
    BY DEF OnlyRehashRevives
  <2>1. CASE account.password # chosen /\ account'.password = account.password
    <3>1. PICK t \in Sessions :
            /\ sessions[t].overlapped /\ sessions[t].rehashed
            /\ sessions[t].password = account.password
      BY <2>1 DEF IndInv, OnlyRehashRevives
    <3>2. t # s
      BY <3>1, <1>2 DEF IndInv, TypeOK, NoRow
    <3> QED
      BY <3>1, <3>2, <1>5, <2>1
  <2>2. CASE account.password = chosen \/ account'.password # account.password
    <3>1. requests[r].outdated /\ account'.password = requests[r].password
      BY <1>6, <1>8, <2>2
    <3>2. requests[r].password # chosen
      BY <1>6, <3>1
    <3>3. account.password = chosen
      BY <2>2, <3>1 DEF IndInv, OneOutdatedPassword
    <3>4. requests[r].overlapped
      BY <1>1, <3>2, <3>3 DEF IndInv, LoginsAreUpToDate
    <3> QED
      BY <1>4, <1>5, <3>1, <3>4
  <2> QED
    BY <2>1, <2>2
<1>14. LoginsAreUpToDate'
  BY <1>6, <1>9, <1>10 DEF IndInv, LoginsAreUpToDate, LoggingIn
<1>15. OneOutdatedPassword'
  BY <1>6, <1>8, <1>10 DEF IndInv, OneOutdatedPassword, LoggingIn
<1>16. ClosingIsComplete'
  <2>1. ASSUME NEW p \in Closing', NEW t \in Open' \ requests'[p].closing
        PROVE  sessions'[t].overlapped
    <3>1. p \in Closing /\ p # r /\ requests'[p] = requests[p]
      BY <1>1, <1>6, <1>10, <2>1 DEF Closing
    <3>2. CASE t = s
      BY <3>1, <3>2, <1>4, <1>5
    <3>3. CASE t # s
      <4>1. t \in Open \ requests[p].closing /\ t \in Sessions \ {s}
        BY <3>1, <3>3, <2>1, <1>5 DEF Open
      <4> QED
        BY <3>1, <4>1, <1>5 DEF IndInv, ClosingIsComplete
    <3> QED
      BY <3>2, <3>3
  <2> QED
    BY <2>1 DEF ClosingIsComplete
<1> QED
  BY <1>11, <1>12, <1>13, <1>14, <1>15, <1>16 DEF IndInv

\* A change that commits leaves the sessions of overlapping logins open, and no other.
LEMMA ChangeCommitPreserves ==
  ASSUME IndInv, NEW r \in Requests, ChangeCommit(r)
  PROVE  IndInv'
<1>1. /\ requests \in [Requests -> RequestStates] /\ sessions \in [Sessions -> SessionRows]
      /\ requests[r] \in RequestStates
      /\ requests[r].pc = "updated" /\ r \in Closing /\ r \notin LoggingIn
      /\ requests[r].password \in Passwords
  BY DEF IndInv, TypeOK, ChangeCommit, LoggingIn, Closing, RequestStates
<1>2. /\ account' = [password |-> requests[r].password, outdated |-> FALSE]
      /\ chosen' = requests[r].password
      /\ account' \in Accounts /\ chosen' \in Passwords
      /\ account'.password = chosen' /\ ~account'.outdated
  BY <1>1 DEF ChangeCommit, Accounts
<1>3. \A s \in Sessions :
        /\ sessions'[s] \in SessionRows
        /\ sessions'[s].password = sessions[s].password
        /\ sessions'[s].overlapped = sessions[s].overlapped
        /\ s \notin requests[r].closing => sessions'[s] = sessions[s]
        /\ sessions'[s].state =
             IF s \in requests[r].closing THEN "closed" ELSE sessions[s].state
  BY <1>1 DEF ChangeCommit, SessionRows
<1>4. Open' = Open \ requests[r].closing
  BY <1>3 DEF Open
<1>5. \A p \in Requests :
        /\ requests'[p] \in RequestStates
        /\ p = r => requests'[p] = NoRequest
        /\ p # r => /\ requests'[p].pc = requests[p].pc
                    /\ requests'[p].password = requests[p].password
                    /\ requests'[p].outdated = requests[p].outdated
                    /\ requests'[p].closing = requests[p].closing
                    /\ p \in LoggingIn => requests'[p].overlapped
  BY <1>1 DEF ChangeCommit, RequestStates, NoRequest
<1>6. NoRequest.pc = "idle" /\ NoRequest.outdated = FALSE
  BY DEF NoRequest
<1>7. LoggingIn' = LoggingIn /\ Closing' = Closing \ {r}
  BY <1>1, <1>5, <1>6 DEF LoggingIn, Closing
<1>8. TypeOK'
  <2>1. sessions' \in [Sessions -> SessionRows] /\ requests' \in [Requests -> RequestStates]
    BY <1>3, <1>5 DEF ChangeCommit
  <2>2. \A s \in Open' : sessions'[s].password # NoPassword
    BY <1>3, <1>4 DEF IndInv, TypeOK, Open
  <2>3. \A p \in Requests : requests'[p].pc # "idle" => requests'[p].password # NoPassword
    BY <1>5, <1>6 DEF IndInv, TypeOK
  <2>6. \A s \in Sessions : sessions'[s].state = "absent" => sessions'[s] = NoRow
    BY <1>3 DEF IndInv, TypeOK
  <2>4. \A p \in Requests : Holds(p)' = Holds(p) \/ Holds(p)' = {}
    BY <1>5, <1>6 DEF Holds
  <2>5. \A p, q \in Requests : Holds(p)' \cap Holds(q)' # {} => p = q
    BY <2>4 DEF IndInv, TypeOK
  <2> QED
    BY <1>2, <2>1, <2>2, <2>3, <2>5, <2>6 DEF TypeOK
<1>9. OnlyOverlappingLoginsSurvive'
  BY <1>1, <1>3, <1>4 DEF IndInv, OnlyOverlappingLoginsSurvive, ClosingIsComplete, Open
<1>10. OnlyRehashRevives'
  BY <1>2 DEF OnlyRehashRevives
<1>11. LoginsAreUpToDate'
  BY <1>1, <1>5, <1>7 DEF LoginsAreUpToDate, LoggingIn
<1>12. OneOutdatedPassword'
  BY <1>2, <1>5, <1>6, <1>7 DEF IndInv, OneOutdatedPassword, LoggingIn
<1>13. ClosingIsComplete'
  BY <1>3, <1>4, <1>5, <1>7 DEF IndInv, ClosingIsComplete, Closing, Open
<1> QED
  BY <1>8, <1>9, <1>10, <1>11, <1>12, <1>13 DEF IndInv

LEMMA CloseSessionPreserves ==
  ASSUME IndInv, NEW s \in Sessions, CloseSession(s)
  PROVE  IndInv'
<1>1. /\ sessions \in [Sessions -> SessionRows]
      /\ UNCHANGED <<account, chosen, requests>>
      /\ Open' = Open \ {s}
      /\ sessions' \in [Sessions -> SessionRows]
      /\ \A t \in Sessions :
           /\ sessions'[t].state = "absent" => sessions'[t] = sessions[t]
           /\ sessions'[t].password = sessions[t].password
           /\ sessions'[t].overlapped = sessions[t].overlapped
           /\ sessions'[t].rehashed = sessions[t].rehashed
  BY DEF IndInv, TypeOK, CloseSession, SessionRows, Open
<1>2. TypeOK'
  <2>1. \A t \in Open' : sessions'[t].password # NoPassword
    BY <1>1 DEF IndInv, TypeOK, Open
  <2>2. \A p \in Requests : Holds(p)' = Holds(p)
    BY <1>1 DEF Holds
  <2> QED
    BY <1>1, <2>1, <2>2 DEF IndInv, TypeOK
<1>3. OnlyOverlappingLoginsSurvive'
  BY <1>1 DEF IndInv, OnlyOverlappingLoginsSurvive, Open
<1>4. OnlyRehashRevives'
  BY <1>1 DEF IndInv, OnlyRehashRevives
<1>5. LoginsAreUpToDate' /\ OneOutdatedPassword'
  BY <1>1 DEF IndInv, LoginsAreUpToDate, OneOutdatedPassword, LoggingIn
<1>6. ClosingIsComplete'
  BY <1>1 DEF IndInv, ClosingIsComplete, Closing, Open
<1> QED
  BY <1>2, <1>3, <1>4, <1>5, <1>6 DEF IndInv

LEMMA NextPreservesIndInv ==
  ASSUME IndInv, [Next]_vars
  PROVE  IndInv'
<1>1. CASE UNCHANGED vars
  BY <1>1 DEF vars, IndInv, TypeOK, Open, LoggingIn, Closing, Holds,
              OnlyOverlappingLoginsSurvive, OnlyRehashRevives, LoginsAreUpToDate,
              OneOutdatedPassword, ClosingIsComplete
<1> QED
  BY <1>1, LoginReadPreserves, GoingOnPreserves, ChangeReadPreserves, LoginCommitPreserves,
     ChangeCommitPreserves, CloseSessionPreserves DEF Next

-------------------------------------------------------------------------------
\* Logins and changes of one account, each from the row it has read, keep to the shape
\* that IndInv describes.
THEOREM Invariance == Spec => []IndInv
<1>1. Init => IndInv
  BY InitEstablishesIndInv
<1>2. IndInv /\ [Next]_vars => IndInv'
  BY NextPreservesIndInv
<1> QED
  BY <1>1, <1>2, PTL DEF Spec

\* Rows and requests keep their shape, and no two changes close the same session.
THEOREM TypeCorrectness == Spec => []TypeOK
<1>1. IndInv => TypeOK
  BY DEF IndInv
<1> QED
  BY <1>1, Invariance, PTL

\* A password change leaves no session of the former password open, but for those of
\* logins that overlap it.
THEOREM SurvivorsOverlapped == Spec => []OnlyOverlappingLoginsSurvive
<1>1. IndInv => OnlyOverlappingLoginsSurvive
  BY DEF IndInv
<1> QED
  BY <1>1, Invariance, PTL

\* Nothing but the rehash of an overlapping login puts a former password back.
THEOREM OldPasswordNeedsRehash == Spec => []OnlyRehashRevives
<1>1. IndInv => OnlyRehashRevives
  BY DEF IndInv
<1> QED
  BY <1>1, Invariance, PTL

-------------------------------------------------------------------------------
(***************************************************************************)
(* Which overlap does the harm: a login that will rehash, while a change   *)
(* has flushed the new hash, for the password; any login, while a change   *)
(* has seen the sessions, for these.  Everything else may overlap.         *)
(***************************************************************************)
RehashesAreApart ==
  \A r, q \in Requests : requests[r].outdated => requests[q].pc # "updated"

LoginsAreApart == LoggingIn = {} \/ Closing = {}

\* A login that will rehash has verified the password that the last change set.
RehashesAreUpToDate ==
  /\ account.password = chosen
  /\ \A r \in Requests : requests[r].outdated => requests[r].password = chosen

NothingOverlaps ==
  /\ \A s \in Sessions : ~sessions[s].overlapped
  /\ \A r \in Requests : ~requests[r].overlapped

\* What a request does up to its commit: it learns nothing of an overlap, and what it knows
\* to be outdated it knew before, or reads.
LEMMA RequestsLearn ==
  ASSUME IndInv, NEW r \in Requests,
         \/ LoginRead(r) \/ LoginFlush(r) \/ ChangeStart(r) \/ ChangeClose(r)
         \/ ChangeFlush(r) \/ Abort(r) \/ \E new \in Passwords : ChangeRead(r, new)
  PROVE  /\ UNCHANGED <<account, chosen, sessions>>
         /\ \A q \in Requests :
              /\ requests'[q].overlapped => requests[q].overlapped
              /\ requests'[q].outdated =>
                   \/ requests[q].outdated /\ requests'[q].password = requests[q].password
                   \/ requests'[q].password = account.password
<1> USE DEF IndInv, TypeOK, RequestStates, NoRequest
<1>1. /\ UNCHANGED <<account, chosen, sessions>>
      /\ \A q \in Requests \ {r} : requests'[q] = requests[q]
  BY DEF LoginRead, LoginFlush, ChangeRead, ChangeStart, ChangeClose, ChangeFlush, Abort,
         Goto, Respond
<1>2. CASE LoginRead(r)
  BY <1>1, <1>2 DEF LoginRead
<1>3. CASE LoginFlush(r) \/ ChangeFlush(r)
  <2>1. /\ requests'[r].overlapped = requests[r].overlapped
        /\ requests'[r].outdated = requests[r].outdated
        /\ requests'[r].password = requests[r].password
    BY <1>3 DEF LoginFlush, ChangeFlush, Goto
  <2> QED
    BY <1>1, <2>1
<1>4. CASE Abort(r) \/ \E new \in Passwords : ChangeRead(r, new)
  <2>1. requests'[r].overlapped = FALSE /\ requests'[r].outdated = FALSE
    <3>1. CASE Abort(r)
      BY <3>1 DEF Abort, Respond
    <3>2. CASE \E new \in Passwords : ChangeRead(r, new)
      <4>1. PICK new \in Passwords :
              requests'[r] = [NoRequest EXCEPT !.pc = "checked", !.password = new]
        BY <3>2 DEF ChangeRead
      <4> QED
        BY <4>1
    <3> QED
      BY <1>4, <3>1, <3>2
  <2> QED
    BY <1>1, <2>1
<1>5. CASE ChangeStart(r) \/ ChangeClose(r)
  <2>1. /\ requests'[r].overlapped = requests[r].overlapped
        /\ requests'[r].outdated = requests[r].outdated
        /\ requests'[r].password = requests[r].password
    BY <1>5 DEF ChangeStart, ChangeClose
  <2> QED
    BY <1>1, <2>1
<1> QED
  BY <1>2, <1>3, <1>4, <1>5

\* A step leaves the password alone or is one of two commits.
LEMMA PasswordSteps ==
  ASSUME IndInv, [Next]_vars
  PROVE  /\ \/ UNCHANGED <<account, chosen>>
            \/ \E r \in Requests :
                 \/ /\ UNCHANGED chosen /\ account'.password = account.password
                 \/ /\ UNCHANGED chosen /\ account'.password = requests[r].password
                    /\ requests[r].outdated
                 \/ /\ requests[r].pc = "updated"
                    /\ account'.password = chosen'
         /\ \A r \in Requests : requests'[r].outdated =>
              \/ requests[r].outdated /\ requests'[r].password = requests[r].password
              \/ UNCHANGED <<account, chosen>> /\ requests'[r].password = account.password
<1> USE DEF IndInv, TypeOK, RequestStates, Respond, NoRequest
<1>1. ASSUME NEW r \in Requests,
             \/ LoginRead(r) \/ LoginFlush(r) \/ ChangeStart(r) \/ ChangeClose(r)
             \/ ChangeFlush(r) \/ Abort(r) \/ \E new \in Passwords : ChangeRead(r, new)
      PROVE  /\ UNCHANGED <<account, chosen>>
             /\ \A q \in Requests : requests'[q].outdated =>
                  \/ requests[q].outdated /\ requests'[q].password = requests[q].password
                  \/ requests'[q].password = account.password
  BY <1>1, RequestsLearn
<1>2. ASSUME NEW r \in Requests, LoginCommit(r)
      PROVE  /\ UNCHANGED chosen
             /\ \/ account'.password = account.password
                \/ account'.password = requests[r].password /\ requests[r].outdated
             /\ \A q \in Requests : requests'[q].outdated =>
                  requests[q].outdated /\ requests'[q].password = requests[q].password
  BY <1>2 DEF LoginCommit
<1>3. ASSUME NEW r \in Requests, ChangeCommit(r)
      PROVE  /\ requests[r].pc = "updated"
             /\ account'.password = chosen'
             /\ \A q \in Requests : requests'[q].outdated =>
                  requests[q].outdated /\ requests'[q].password = requests[q].password
  BY <1>3 DEF ChangeCommit
<1>4. ASSUME NEW s \in Sessions, CloseSession(s)
      PROVE  UNCHANGED <<account, chosen, requests>>
  BY <1>4 DEF CloseSession
<1> QED
  BY <1>1, <1>2, <1>3, <1>4 DEF Next, vars

\* tests/test_level_6_security.py, lines 13-40, "Test password change functionality": the
\* password of the last change is the one to log in with, unless a login that rehashes
\* overlapped the change (auth_service.py, lines 128-134).
THEOREM PasswordRevivalNeedsOverlap ==
  Spec /\ []RehashesAreApart => []ChangedPasswordHolds
<1>1. Init => RehashesAreUpToDate
  BY DEF Init, NoRequest, RehashesAreUpToDate
<1>2. IndInv /\ RehashesAreApart /\ RehashesAreUpToDate /\ [Next]_vars => RehashesAreUpToDate'
  <2> SUFFICES ASSUME IndInv, RehashesAreApart, RehashesAreUpToDate, [Next]_vars
               PROVE  RehashesAreUpToDate'
    OBVIOUS
  <2> USE DEF RehashesAreUpToDate
  <2>1. CASE UNCHANGED chosen /\ account'.password = account.password
    BY <2>1, PasswordSteps
  <2>2. CASE ~(UNCHANGED chosen /\ account'.password = account.password)
    <3>1. PICK r \in Requests :
            \/ /\ UNCHANGED chosen /\ account'.password = requests[r].password
               /\ requests[r].outdated
            \/ requests[r].pc = "updated" /\ account'.password = chosen'
      BY <2>2, PasswordSteps
    <3>2. CASE UNCHANGED chosen /\ requests[r].outdated
                 /\ account'.password = requests[r].password
      BY <2>2, <3>2
    <3>3. CASE requests[r].pc = "updated" /\ account'.password = chosen'
      <4>1. \A q \in Requests : ~requests[q].outdated
        BY <3>3 DEF RehashesAreApart
      <4>2. \A q \in Requests : ~requests'[q].outdated
        BY <2>2, <4>1, PasswordSteps
      <4> QED
        BY <3>3, <4>2
    <3> QED
      BY <3>1, <3>2, <3>3
  <2> QED
    BY <2>1, <2>2
<1>3. RehashesAreUpToDate => ChangedPasswordHolds
  BY DEF RehashesAreUpToDate, ChangedPasswordHolds
<1> QED
  BY <1>1, <1>2, <1>3, Invariance, PTL DEF Spec

\* Where no login overlaps a change, the history of none says that it did.
LEMMA NextOverlapsNothing ==
  ASSUME IndInv, LoginsAreApart, LoginsAreApart', NothingOverlaps, [Next]_vars
  PROVE  NothingOverlaps'
<1> USE DEF IndInv, TypeOK, RequestStates, SessionRows, Respond, Goto, NoRequest, NothingOverlaps
<1>1. ASSUME NEW r \in Requests,
             \/ LoginRead(r) \/ LoginFlush(r) \/ ChangeStart(r) \/ ChangeClose(r)
             \/ ChangeFlush(r) \/ Abort(r) \/ \E new \in Passwords : ChangeRead(r, new)
      PROVE  NothingOverlaps'
  BY <1>1, RequestsLearn
<1>2. ASSUME NEW r \in Requests, LoginCommit(r)
      PROVE  NothingOverlaps'
  <2>1. r \in LoggingIn
    BY <1>2 DEF LoginCommit, LoggingIn
  <2>2. Closing = {}
    BY <2>1 DEF LoginsAreApart
  <2>3. ~NewSession(r).overlapped
    BY <2>2 DEF NewSession
  <2> QED
    BY <1>2, <2>3 DEF LoginCommit
<1>3. ASSUME NEW r \in Requests, ChangeCommit(r)
      PROVE  NothingOverlaps'
  <2>1. LoggingIn = {}
    BY <1>3 DEF ChangeCommit, Closing, LoginsAreApart
  <2>2. \A q \in Requests : requests'[q] = requests[q] \/ requests'[q] = NoRequest
    BY <1>3, <2>1 DEF ChangeCommit
  <2>3. \A s \in Sessions : sessions'[s].overlapped = sessions[s].overlapped
    BY <1>3 DEF ChangeCommit
  <2> QED
    BY <2>2, <2>3
<1>4. ASSUME NEW s \in Sessions, CloseSession(s)
      PROVE  NothingOverlaps'
  BY <1>4 DEF CloseSession
<1>5. CASE UNCHANGED vars
  BY <1>5 DEF vars
<1> QED
  BY <1>1, <1>2, <1>3, <1>4, <1>5 DEF Next

\* tests/test_level_6_security.py, line 67, "Test old tokens are invalidated after
\* password change": every open session was opened with the present password, unless a
\* login overlapped a change (auth_service.py, lines 203-207).
THEOREM OldSessionNeedsOverlap ==
  Spec /\ []LoginsAreApart => [](\A s \in Open : sessions[s].password = chosen)
<1>1. Init => NothingOverlaps
  BY DEF Init, NoRow, NoRequest, NothingOverlaps
<1>2. IndInv /\ LoginsAreApart /\ LoginsAreApart' /\ NothingOverlaps /\ [Next]_vars
        => NothingOverlaps'
  BY NextOverlapsNothing
<1>3. IndInv /\ LoginsAreApart => RehashesAreApart
  BY DEF IndInv, OneOutdatedPassword, LoginsAreApart, RehashesAreApart, Closing
<1>4. IndInv /\ NothingOverlaps /\ ChangedPasswordHolds
        => \A s \in Open : sessions[s].password = chosen
  BY DEF IndInv, OnlyOverlappingLoginsSurvive, NothingOverlaps, ChangedPasswordHolds, Open
<1> QED
  BY <1>1, <1>2, <1>3, <1>4, Invariance, PasswordRevivalNeedsOverlap, PTL DEF Spec

===============================================================================
