\* Limit and Window small enough for several key lives before MaxTime; MaxCount lets
\* attempts be denied and counted without an answer after the limit is reached;
\* MaxExcused lets Redis restart twice, or once with calls that fail before and after.
SPECIFICATION Spec
CONSTANTS
  Limit = 2
  Window = 3
  MaxTime = 6
  MaxCount = 4
  MaxExcused = 4
INVARIANTS
  TypeOK
  NeverMoreThanLimit
  CountCoversWindow
CHECK_DEADLOCK FALSE
