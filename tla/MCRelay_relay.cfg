SPECIFICATION Spec
CONSTANTS
  v1 = v1
  v2 = v2
  p1 = p1
  p2 = p2
  s1 = s1
  s2 = s2
  s3 = s3
  c1 = c1
  c2 = c2
  Servers = {v1, v2}
  Phones = {p1, p2}
  Sockets = {s1, s2, s3, c1, c2}
  Holder <- MCHolder
  NoSocket = NoSocket
  NoServer = NoServer
  MaxVisits = 1
  MaxFaults = 1
INVARIANTS
  TypeOK
  RolesAreExclusive
  AnswersItsPhone
  HandedOff
  QuietIsReachable
CHECK_DEADLOCK FALSE
