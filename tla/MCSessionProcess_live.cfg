SPECIFICATION FairSpec
CONSTANTS
  r1 = r1
  r2 = r2
  m1 = m1
  m2 = m2
  NoRequest = NoRequest
  Requests <- MCRequests1
  Messages <- MCMessages2
  ToolOf <- MCToolOf1
  Features <- LiveFeatures
  MaxOut = 3
PROPERTIES
  KilledLoopExits
  AcceptedIsHandled
  DeadIdleReleased
CHECK_DEADLOCK FALSE
