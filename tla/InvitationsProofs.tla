-------------------------- MODULE InvitationsProofs --------------------------
(***************************************************************************)
(* Theorems about Invitations, for any number of concurrent requests.      *)
(***************************************************************************)
EXTENDS Invitations, FiniteSetTheorems, TLAPS

\* Before anybody registers or invites the number there is nothing to keep.
LEMMA InitEstablishesIndInv == Init => IndInv
<1> SUFFICES ASSUME Init PROVE IndInv
  OBVIOUS
<1> USE DEF Init, NoAccount, NoRequest
<1>1. ~Exists
  BY DEF Exists
<1>2. TypeOK
  BY <1>1 DEF TypeOK, Accounts, InviteStates, RequestStates
<1>3. OneAccountPerNumber
  BY <1>1 DEF OneAccountPerNumber
<1>4. PendingHasInvite /\ RequestsHaveAccount /\ PendingWasRead
  BY DEF PendingHasInvite, RequestsHaveAccount, PendingWasRead
<1> QED
  BY <1>2, <1>3, <1>4 DEF IndInv

\* A request that ends, and one that goes on with the status it has just read, leave
\* what is known of the requests as it was.
LEMMA StepKeepsRequests ==
  ASSUME IndInv, NEW r \in Requests, NEW q \in RequestStates,
         requests' = [requests EXCEPT ![r] = q],
         account'.status = "pending" => account.status \in {"absent", "pending"},
         Exists => Exists',
         q.pc \in {"accept_load", "accept", "revoke_load", "revoke"} => Exists,
         q.pc \in {"accept", "revoke"} => q.status = account.status
  PROVE  /\ requests' \in [Requests -> RequestStates]
         /\ \A p \in Requests :
              requests'[p].pc \in {"accept_load", "accept", "revoke_load", "revoke"} => Exists'
         /\ PendingWasRead'
<1> USE DEF IndInv, TypeOK
<1>1. /\ requests'[r] = q
      /\ \A p \in Requests \ {r} : requests'[p] = requests[p]
  OBVIOUS
<1>2. requests' \in [Requests -> RequestStates]
  OBVIOUS
<1>3. \A p \in Requests :
        requests'[p].pc \in {"accept_load", "accept", "revoke_load", "revoke"} => Exists'
  BY <1>1 DEF RequestsHaveAccount
<1>4. PendingWasRead'
  BY <1>1 DEF PendingWasRead, RequestsHaveAccount, Exists
<1> QED
  BY <1>2, <1>3, <1>4

\* Every action preserves the inductive invariant.
LEMMA NextPreservesIndInv ==
  ASSUME IndInv, [Next]_vars
  PROVE  IndInv'
<1> USE DEF IndInv, TypeOK
<1>1. NoRequest \in RequestStates
  BY DEF NoRequest, RequestStates
<1>2. ASSUME NEW r \in Requests, CommitRegister(r) \/ CommitInvite(r)
      PROVE  IndInv'
  <2> USE <1>2 DEF CommitRegister, CommitInvite, Respond
  <2>1. /\ requests' \in [Requests -> RequestStates]
        /\ \A p \in Requests :
             requests'[p].pc \in {"accept_load", "accept", "revoke_load", "revoke"} => Exists'
        /\ PendingWasRead'
    <3>1. ~Exists /\ Exists'
      BY DEF Exists
    <3>2. account.status = "absent"
      BY <3>1 DEF Exists
    <3> QED
      BY <1>1, <3>1, <3>2, StepKeepsRequests DEF NoRequest
  <2>2. TypeOK'
    <3>1. account' \in Accounts /\ invite' \in InviteStates
      <4>1. CASE CommitRegister(r)
        BY <4>1 DEF Accounts, Statuses
      <4>2. CASE CommitInvite(r)
        BY <4>2 DEF Accounts, Statuses, InviteStates
      <4> QED
        BY <4>1, <4>2
    <3>2. created' \in Nat /\ accepts' \in Nat /\ expired' \in BOOLEAN
      OBVIOUS
    <3>3. account'.password \/ invite' = "open"
      OBVIOUS
    <3> QED
      BY <2>1, <3>1, <3>2, <3>3
  <2>3. OneAccountPerNumber'
    BY DEF OneAccountPerNumber, Exists
  <2>4. PendingHasInvite'
    BY DEF PendingHasInvite
  <2>5. RequestsHaveAccount'
    BY <2>1 DEF RequestsHaveAccount, Exists
  <2> QED
    BY <2>1, <2>2, <2>3, <2>4, <2>5
<1>3. ASSUME NEW r \in Requests, CommitAccept(r)
      PROVE  IndInv'
  <2> USE <1>3 DEF CommitAccept, Respond
  <2>1. /\ Exists /\ Exists'
        /\ account'.status # "pending"
        /\ account' \in Accounts
        /\ account'.password
    BY DEF Exists, Accounts, Statuses, RequestsHaveAccount, PendingWasRead
  <2>2. /\ requests' \in [Requests -> RequestStates]
        /\ \A p \in Requests :
             requests'[p].pc \in {"accept_load", "accept", "revoke_load", "revoke"} => Exists'
        /\ PendingWasRead'
    BY <1>1, <2>1, StepKeepsRequests DEF NoRequest
  <2>3. TypeOK'
    BY <2>1, <2>2 DEF InviteStates
  <2> QED
    BY <2>1, <2>2, <2>3 DEF OneAccountPerNumber, PendingHasInvite, RequestsHaveAccount
<1>4. ASSUME NEW r \in Requests, CommitRevoke(r)
      PROVE  IndInv'
  <2> USE <1>4 DEF CommitRevoke, Respond
  <2>1. /\ Exists /\ Exists'
        /\ account'.status = account.status
        /\ account'.password = account.password
        /\ account' \in Accounts
        /\ account.status = "pending" => account'.is_deleted
    BY DEF Exists, Accounts, RequestsHaveAccount, PendingWasRead
  <2>2. /\ requests' \in [Requests -> RequestStates]
        /\ \A p \in Requests :
             requests'[p].pc \in {"accept_load", "accept", "revoke_load", "revoke"} => Exists'
        /\ PendingWasRead'
    BY <1>1, <2>1, StepKeepsRequests DEF NoRequest
  <2>3. TypeOK'
    BY <2>1, <2>2 DEF InviteStates
  <2> QED
    BY <2>1, <2>2, <2>3 DEF OneAccountPerNumber, PendingHasInvite, RequestsHaveAccount
<1>5. ASSUME NEW r \in Requests, NEW q \in RequestStates,
             requests' = [requests EXCEPT ![r] = q],
             UNCHANGED <<account, invite, expired, created, accepts>>,
             q.pc \in {"accept_load", "accept", "revoke_load", "revoke"} => Exists,
             q.pc \in {"accept", "revoke"} => q.status = account.status
      PROVE  IndInv'
  <2>1. Exists' = Exists
    BY <1>5 DEF Exists
  <2>2. /\ requests' \in [Requests -> RequestStates]
        /\ \A p \in Requests :
             requests'[p].pc \in {"accept_load", "accept", "revoke_load", "revoke"} => Exists'
        /\ PendingWasRead'
    BY <1>5, <2>1, StepKeepsRequests
  <2> QED
    BY <1>5, <2>1, <2>2 DEF OneAccountPerNumber, PendingHasInvite, RequestsHaveAccount
<1>6. ASSUME NEW r \in Requests, RegisterRead(r) \/ InviteRead(r) \/ AcceptFind(r) \/ RevokeFind(r)
      PROVE  IndInv'
  <2>1. PICK pc \in {"register", "invite", "accept_load", "revoke_load"} :
          /\ GoOn(r, pc, "absent")
          /\ pc \in {"accept_load", "revoke_load"} => invite = "open"
    BY <1>6 DEF RegisterRead, InviteRead, AcceptFind, RevokeFind
  <2>2. [pc |-> pc, status |-> "absent"] \in RequestStates
    BY DEF RequestStates
  <2> QED
    BY <1>5, <2>1, <2>2 DEF GoOn, RequestsHaveAccount
<1>7. ASSUME NEW r \in Requests, AcceptLoad(r) \/ RevokeLoad(r)
      PROVE  IndInv'
  <2>1. PICK pc \in {"accept", "revoke"} : GoOn(r, pc, account.status)
    BY <1>7 DEF AcceptLoad, RevokeLoad
  <2>2. [pc |-> pc, status |-> account.status] \in RequestStates
    BY DEF RequestStates, Accounts
  <2>3. Exists
    BY <1>7 DEF AcceptLoad, RevokeLoad, RequestsHaveAccount
  <2> QED
    BY <1>5, <2>1, <2>2, <2>3 DEF GoOn
<1>8. ASSUME NEW r \in Requests, Abort(r)
      PROVE  IndInv'
  BY <1>1, <1>5, <1>8 DEF Abort, Respond, NoRequest
<1>9. ASSUME NEW status \in {"active", "locked", "disabled"}, Exists, SetStatus(status)
      PROVE  IndInv'
  <2>1. /\ Exists'
        /\ account'.status # "pending"
        /\ account'.password = account.password
        /\ account' \in Accounts
    BY <1>9 DEF SetStatus, Exists, Accounts, Statuses
  <2> QED
    BY <1>9, <2>1
    DEF SetStatus, OneAccountPerNumber, PendingHasInvite, RequestsHaveAccount, PendingWasRead
<1>10. CASE LockOut \/ Disable \/ Reinstate \/ LockEnds
  BY <1>9, <1>10 DEF LockOut, Disable, Reinstate, LockEnds, Exists
<1>11. CASE Expire \/ UNCHANGED vars
  BY <1>11
  DEF Expire, vars, Exists, OneAccountPerNumber, PendingHasInvite, RequestsHaveAccount, PendingWasRead
<1> QED
  BY <1>2, <1>3, <1>4, <1>6, <1>7, <1>8, <1>10, <1>11 DEF Next

\* The invariant holds whatever registrations, invitations, acceptances, revocations
\* and locks of a number run at the same time.
THEOREM Invariance == Spec => []IndInv
<1>1. Init => IndInv
  BY InitEstablishesIndInv
<1>2. IndInv /\ [Next]_vars => IndInv'
  BY NextPreservesIndInv
<1> QED
  BY <1>1, <1>2, PTL DEF Spec

\* Type correctness; an account without a password has an open or a revoked invitation.
THEOREM TypeCorrectness == Spec => []TypeOK
<1>1. IndInv => TypeOK
  BY DEF IndInv
<1> QED
  BY <1>1, Invariance, PTL

\* One registration or invitation of a number succeeds, and no more.
THEOREM OneCreation == Spec => []OneAccountPerNumber
<1>1. IndInv => OneAccountPerNumber
  BY DEF IndInv
<1> QED
  BY <1>1, Invariance, PTL

\* A pending account never loses its invitation row: the row may expire, but no race
\* deletes or accepts it without the account.
THEOREM PendingKeepsInvitation == Spec => []PendingHasInvite
<1>1. IndInv => PendingHasInvite
  BY DEF IndInv
<1> QED
  BY <1>1, Invariance, PTL

-----------------------------------------------------------------------------
\* The requests that may accept are finitely many, before a step and after it.
LEMMA AcceptingIsFinite ==
  /\ IsFiniteSet(Accepting) /\ Cardinality(Accepting) \in Nat
  /\ IsFiniteSet(Accepting') /\ Cardinality(Accepting') \in Nat
  /\ Cardinality(Accepting') <= Cardinality(Requests)
  /\ Cardinality(Requests) \in Nat
<1>1. Accepting \in SUBSET Requests /\ Accepting' \in SUBSET Requests
  BY DEF Accepting
<1>2. IsFiniteSet(Accepting) /\ IsFiniteSet(Accepting')
  BY <1>1, RequestsAreFinite, FS_Subset
<1>3. Cardinality(Accepting') <= Cardinality(Requests)
  BY <1>1, RequestsAreFinite, FS_Subset
<1> QED
  BY <1>2, <1>3, RequestsAreFinite, FS_CardinalityType

\* An acceptance takes its request from those that may accept; the others join them
\* while nothing is accepted, or leave.
LEMMA NextKeepsAcceptances ==
  ASSUME IndInv, AcceptancesFit, [Next]_vars
  PROVE  AcceptancesFit'
<1> USE DEF IndInv, TypeOK
<1>0. accepts \in Nat
  OBVIOUS
<1>1. ASSUME NEW r \in Requests, CommitAccept(r)
      PROVE  AcceptancesFit'
  <2>1. Accepting' = Accepting \ {r} /\ r \in Accepting
    BY <1>1 DEF CommitAccept, Respond, Accepting, NoRequest
  <2>2. Cardinality(Accepting') = Cardinality(Accepting) - 1
    BY <2>1, AcceptingIsFinite, FS_RemoveElement
  <2>3. accepts' = accepts + 1 /\ invite' = "accepted"
    BY <1>1 DEF CommitAccept
  <2> QED
    BY <1>0, <2>2, <2>3, AcceptingIsFinite DEF AcceptancesFit
<1>2. ASSUME NEW r \in Requests, AcceptFind(r)
      PROVE  AcceptancesFit'
  <2>1. accepts' = 0
    BY <1>2 DEF AcceptFind, GoOn, AcceptancesFit
  <2> QED
    BY <2>1, AcceptingIsFinite DEF AcceptancesFit
<1>3. ASSUME Accepting' \subseteq Accepting, accepts' = accepts,
             invite' \in {"none", "open"} => accepts = 0
      PROVE  AcceptancesFit'
  <2>1. Cardinality(Accepting') <= Cardinality(Accepting)
    BY <1>3, AcceptingIsFinite, FS_Subset
  <2> QED
    BY <1>0, <1>3, <2>1, AcceptingIsFinite DEF AcceptancesFit
<1>4. ASSUME NEW r \in Requests,
             CommitRegister(r) \/ CommitInvite(r) \/ CommitRevoke(r) \/ Abort(r)
      PROVE  AcceptancesFit'
  <2>1. Accepting' \subseteq Accepting /\ accepts' = accepts
    BY <1>4 DEF CommitRegister, CommitInvite, CommitRevoke, Abort, Respond, Accepting, NoRequest
  <2>2. invite' = invite \/ invite' = "revoked" \/ (invite = "none" /\ CommitInvite(r))
    BY <1>4 DEF CommitRegister, CommitInvite, CommitRevoke, Abort, RequestsHaveAccount
  <2> QED
    BY <1>3, <2>1, <2>2 DEF AcceptancesFit
<1>5. ASSUME NEW r \in Requests,
             RegisterRead(r) \/ InviteRead(r) \/ AcceptLoad(r) \/ RevokeFind(r) \/ RevokeLoad(r)
      PROVE  AcceptancesFit'
  <2>1. /\ Accepting' \subseteq Accepting
        /\ UNCHANGED <<accepts, invite>>
    BY <1>5 DEF RegisterRead, InviteRead, AcceptLoad, RevokeFind, RevokeLoad, GoOn, Accepting
  <2> QED
    BY <1>3, <2>1 DEF AcceptancesFit
<1>6. CASE LockOut \/ Disable \/ Reinstate \/ LockEnds \/ Expire \/ UNCHANGED vars
  <2>1. UNCHANGED <<requests, accepts, invite>>
    BY <1>6 DEF LockOut, Disable, Reinstate, LockEnds, SetStatus, Expire, vars
  <2>2. Accepting' = Accepting
    BY <2>1 DEF Accepting
  <2> QED
    BY <2>1, <2>2 DEF AcceptancesFit
<1> QED
  BY <1>1, <1>2, <1>4, <1>5, <1>6 DEF Next

\* An invitation is accepted by no more requests than overlap, and once if they do not.
THEOREM AcceptancesAreBounded == Spec => []AcceptedOncePerOverlap
<1>1. Init => AcceptancesFit
  <2> SUFFICES ASSUME Init PROVE AcceptancesFit
    OBVIOUS
  <2>1. Accepting = {}
    BY DEF Init, NoRequest, Accepting
  <2> QED
    BY <2>1, AcceptingIsFinite, FS_EmptySet DEF Init, AcceptancesFit
<1>2. IndInv /\ AcceptancesFit /\ [Next]_vars => AcceptancesFit'
  BY NextKeepsAcceptances
<1>3. IndInv /\ AcceptancesFit => AcceptedOncePerOverlap
  BY AcceptingIsFinite DEF AcceptancesFit, AcceptedOncePerOverlap, IndInv, TypeOK
<1> QED
  BY <1>1, <1>2, <1>3, Invariance, PTL DEF Spec

-----------------------------------------------------------------------------
(***************************************************************************)
(* Which overlap does the harm.  A revocation that overlaps no acceptance  *)
(* spares the account that accepted, and acceptances that overlap no other *)
(* are one at most, whatever else runs at the same time: what a lock on    *)
(* the invitation, from the SELECT on, would give (admin_service.py, lines *)
(* 101 and 161).                                                          *)
(***************************************************************************)
Revoking == {r \in Requests : requests[r].pc \in {"revoke_load", "revoke"}}

RevocationsAreApart == Accepting = {} \/ Revoking = {}

AcceptancesAreApart == \A p, q \in Accepting : p = q

\* Revoked is the opposite of accepted, and who revokes, or accepts while no other does,
\* does so before any acceptance.
RevokedIsNotAccepted ==
  /\ invite \in {"none", "open"} => accepts = 0
  /\ account.is_deleted => invite = "revoked" /\ accepts = 0
  /\ Revoking # {} => accepts = 0

AcceptsOnce ==
  /\ invite \in {"none", "open"} => accepts = 0
  /\ Accepting # {} => accepts = 0
  /\ accepts <= 1

\* What a step does to the invitation, the deletion and the two sets of requests.
LEMMA StepShape ==
  ASSUME IndInv, [Next]_vars
  PROVE  \/ \E r \in Accepting :
              /\ invite # "revoked" /\ invite' = "accepted"
              /\ accepts' = accepts + 1
              /\ account'.is_deleted = account.is_deleted
              /\ Accepting' = Accepting \ {r} /\ Revoking' = Revoking
         \/ /\ Revoking # {} /\ invite' = "revoked" /\ accepts' = accepts
            /\ Accepting' = Accepting /\ Revoking' \subseteq Revoking
         \/ /\ invite = "open" /\ invite' = invite /\ accepts' = accepts
            /\ account' = account
         \/ /\ invite' = invite \/ (invite = "none" /\ invite' = "open")
            /\ accepts' = accepts
            /\ account'.is_deleted => account.is_deleted
            /\ Accepting' \subseteq Accepting /\ Revoking' \subseteq Revoking
<1> USE DEF IndInv, TypeOK, Accepting, Revoking, NoRequest
<1>1. ASSUME NEW r \in Requests, CommitAccept(r)
      PROVE  /\ r \in Accepting
             /\ invite # "revoked" /\ invite' = "accepted"
             /\ accepts' = accepts + 1
             /\ account'.is_deleted = account.is_deleted
             /\ Accepting' = Accepting \ {r} /\ Revoking' = Revoking
  BY <1>1 DEF CommitAccept, Respond, Accounts
<1>2. ASSUME NEW r \in Requests, CommitRevoke(r)
      PROVE  /\ Revoking # {} /\ invite' = "revoked" /\ accepts' = accepts
             /\ Accepting' = Accepting /\ Revoking' \subseteq Revoking
  BY <1>2 DEF CommitRevoke, Respond
<1>3. ASSUME NEW r \in Requests, AcceptFind(r) \/ RevokeFind(r)
      PROVE  /\ invite = "open" /\ invite' = invite /\ accepts' = accepts
             /\ account' = account
  BY <1>3 DEF AcceptFind, RevokeFind, GoOn
<1>4. ASSUME NEW r \in Requests,
             CommitRegister(r) \/ CommitInvite(r) \/ Abort(r)
      PROVE  /\ invite' = invite \/ (invite = "none" /\ invite' = "open")
             /\ accepts' = accepts
             /\ account'.is_deleted => account.is_deleted
             /\ Accepting' \subseteq Accepting /\ Revoking' \subseteq Revoking
  BY <1>4 DEF CommitRegister, CommitInvite, Abort, Respond, RequestsHaveAccount
<1>5. ASSUME NEW r \in Requests,
             RegisterRead(r) \/ InviteRead(r) \/ AcceptLoad(r) \/ RevokeLoad(r)
      PROVE  /\ UNCHANGED <<account, invite, accepts>>
             /\ Accepting' \subseteq Accepting /\ Revoking' \subseteq Revoking
  BY <1>5 DEF RegisterRead, InviteRead, AcceptLoad, RevokeLoad, GoOn
<1>6. CASE LockOut \/ Disable \/ Reinstate \/ LockEnds
  BY <1>6 DEF LockOut, Disable, Reinstate, LockEnds, SetStatus, Accounts
<1>7. CASE Expire \/ UNCHANGED vars
  BY <1>7 DEF Expire, vars
<1> QED
  BY <1>1, <1>2, <1>3, <1>4, <1>5, <1>6, <1>7 DEF Next

\* api/v1/admin.py, line 94, "Revoke a pending invitation": a revocation deletes no
\* account that has accepted, unless the two overlapped (admin_service.py, line 174).
THEOREM RevocationNeedsOverlap ==
  Spec /\ []RevocationsAreApart => []RevokeSparesAccepted
<1>1. Init => RevokedIsNotAccepted
  BY DEF Init, NoAccount, NoRequest, RevokedIsNotAccepted, Revoking
<1>2. IndInv /\ RevocationsAreApart /\ RevokedIsNotAccepted /\ [Next]_vars
        => RevokedIsNotAccepted'
  <2> SUFFICES ASSUME IndInv, RevocationsAreApart, RevokedIsNotAccepted, [Next]_vars
               PROVE  RevokedIsNotAccepted'
    OBVIOUS
  <2> USE DEF RevokedIsNotAccepted, RevocationsAreApart
  <2> QED
    BY StepShape
<1>3. RevokedIsNotAccepted => RevokeSparesAccepted
  BY DEF RevokedIsNotAccepted, RevokeSparesAccepted
<1> QED
  BY <1>1, <1>2, <1>3, Invariance, PTL DEF Spec

\* exceptions.py, line 166, "Invitation has already been accepted": nobody else is told
\* that he accepted, unless acceptances overlapped (admin_service.py, line 108).
THEOREM SecondAcceptanceNeedsOverlap ==
  Spec /\ []AcceptancesAreApart => [](accepts <= 1)
<1>1. Init => AcceptsOnce
  BY DEF Init, NoRequest, AcceptsOnce, Accepting
<1>2. IndInv /\ AcceptancesAreApart /\ AcceptsOnce /\ [Next]_vars => AcceptsOnce'
  <2> SUFFICES ASSUME IndInv, AcceptancesAreApart, AcceptsOnce, [Next]_vars
               PROVE  AcceptsOnce'
    OBVIOUS
  <2> USE DEF AcceptsOnce, AcceptancesAreApart
  <2> QED
    BY StepShape
<1>3. AcceptsOnce => accepts <= 1
  BY DEF AcceptsOnce
<1> QED
  BY <1>1, <1>2, <1>3, Invariance, PTL DEF Spec

=============================================================================
