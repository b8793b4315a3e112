SPECIFICATION Spec
CONSTANTS
  r1 = r1
  r2 = r2
  m1 = m1
  m2 = m2
  NoRequest = NoRequest
  Requests <- MCRequests1
  Messages <- MCMessages1
  ToolOf <- MCToolOf1
  Features <- HoldFeatures
  MaxOut = 3
INVARIANT
  FirstPendingIsShown
CHECK_DEADLOCK FALSE
