\* One session and two requests: two refreshes read the same row.
SPECIFICATION Spec
CONSTANTS
  Users = {u1}
  Sessions = {s1}
  Requests = {r1, r2}
  NoUser = NoUser
  NoSession = NoSession
  MaxJti = 4
PROPERTY RevokedStaysRevoked
CHECK_DEADLOCK FALSE
