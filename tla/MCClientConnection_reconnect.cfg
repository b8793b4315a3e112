SPECIFICATION Spec
CONSTANTS
  s1 = s1
  s2 = s2
  s3 = s3
  q1 = q1
  q2 = q2
  q3 = q3
  Sockets = {s1, s2, s3}
  Subs = {q1, q2, q3}
  NoSocket = NoSocket
  NoSub = NoSub
  OldKey = OldKey
  MaxAttempts = 2
  MaxFetches = 1
  MaxVisible = 0
  MaxStops = 0
  MaxFaults = 1
INVARIANT
  ReconnectingIsPursued
CHECK_DEADLOCK FALSE
