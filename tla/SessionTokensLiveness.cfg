\* One user, two sessions, two requests: enough for two bulk updates that want the
\* same rows, and for single-row writers that wait for either.
SPECIFICATION FairSpec
CONSTANTS
  Users = {u1}
  Sessions = {s1, s2}
  Requests = {r1, r2}
  NoUser = NoUser
  NoSession = NoSession
  MaxJti = 3
PROPERTY EveryRequestEnds
CHECK_DEADLOCK FALSE
