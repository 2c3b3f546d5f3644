\* Three requests, so that two changes and a login overlap; a session to come with,
\* one for each login.
SPECIFICATION Spec
CONSTANTS
  Requests = {r1, r2, r3}
  Sessions = {s1, s2, s3}
  Passwords = {p1, p2}
  NoPassword = NoPassword
SYMMETRY Symmetry
INVARIANTS
  TypeOK
  OnlyOverlappingLoginsSurvive
  OnlyRehashRevives
  IndInv
CHECK_DEADLOCK FALSE
