SPECIFICATION FairSpec
CONSTANTS
  v1 = v1
  v2 = v2
  p1 = p1
  p2 = p2
  s1 = s1
  s2 = s2
  s3 = s3
  c1 = c1
  c2 = c2
  Servers = {v1, v2}
  Phones = {}
  Sockets = {s1, s2, s3}
  Holder <- MCHolder0
  NoSocket = NoSocket
  NoServer = NoServer
  MaxVisits = 1
  MaxFaults = 1
PROPERTIES
  WaitingPersists
CHECK_DEADLOCK FALSE
