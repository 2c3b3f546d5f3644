\* Two users, two sessions and three requests: a stale refresh against a refresh,
\* a logout, a bulk update that has its rows or waits for another bulk update, and
\* a session that is opened while a bulk update runs.
SPECIFICATION Spec
CONSTANTS
  Users = {u1, u2}
  Sessions = {s1, s2}
  Requests = {r1, r2, r3}
  NoUser = NoUser
  NoSession = NoSession
  MaxJti = 4
SYMMETRY Symmetry
INVARIANTS
  TypeOK
  IndInv
  ActiveHasOneRefreshToken
PROPERTIES
  BulkClosesAllSeen
  ClosedByOwner
  ImplementsLifecycle
CHECK_DEADLOCK FALSE
