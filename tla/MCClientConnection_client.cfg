SPECIFICATION Spec
CONSTANTS
  s1 = s1
  s2 = s2
  s3 = s3
  q1 = q1
  q2 = q2
  q3 = q3
  Sockets = {s1, s2, s3}
  Subs = {q1, q2, q3}
  NoSocket = NoSocket
  NoSub = NoSub
  OldKey = OldKey
  MaxAttempts = 2
  MaxFetches = 1
  MaxVisible = 1
  MaxStops = 1
  MaxFaults = 2
INVARIANTS
  TypeOK
  OnePursuit
  KeyFits
  QuietIsSettled
CHECK_DEADLOCK FALSE
