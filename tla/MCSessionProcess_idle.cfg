SPECIFICATION Spec
CONSTANTS
  r1 = r1
  r2 = r2
  m1 = m1
  m2 = m2
  NoRequest = NoRequest
  Requests <- MCRequests1
  Messages <- MCMessages2
  ToolOf <- MCToolOf1
  Features <- NoFeatures
  MaxOut = 3
INVARIANT
  IdleAgentRests
CHECK_DEADLOCK FALSE
