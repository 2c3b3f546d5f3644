\* One request at a time, on an account that an administrator disabled.
SPECIFICATION Spec
CONSTANTS
  Requests = {r1}
  MaxAttempts = 3
  LockDuration = 2
  MaxTime = 6
  MaxFailures = 7
PROPERTY DisabledUntilEnabled
CHECK_DEADLOCK FALSE
