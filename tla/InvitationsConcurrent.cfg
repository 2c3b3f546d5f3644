\* Three requests for one number: registrations, invitations, acceptances and
\* revocations in any order, between locks and the administrators' routes.
SPECIFICATION Spec
CONSTANTS Requests = {r1, r2, r3}
SYMMETRY Symmetry
INVARIANTS
  TypeOK
  OneAccountPerNumber
  PendingHasInvite
  IndInv
  AcceptedOncePerOverlap
