\* A login and a change that overlap, from a hash with former Argon2 parameters.
SPECIFICATION Spec
CONSTANTS
  Requests = {r1, r2}
  Sessions = {s1, s2}
  Passwords = {p1, p2}
  NoPassword = NoPassword
INVARIANT ChangedPasswordHolds
CHECK_DEADLOCK FALSE
