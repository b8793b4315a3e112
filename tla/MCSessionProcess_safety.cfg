SPECIFICATION Spec
CONSTANTS
  r1 = r1
  r2 = r2
  m1 = m1
  m2 = m2
  NoRequest = NoRequest
  Requests <- MCRequests2
  Messages <- MCMessages2
  ToolOf <- MCToolOf2
  Features <- SafetyFeatures
  MaxOut = 3
SYMMETRY MessageSymmetry
INVARIANTS
  TypeOK
  ApprovalsTracked
  ShownFirst
  TerminatedIsClean
  SleepsOnlyWhileHeld
  IdleIsTimed
  MessagesConserved
  NoOrphanAgent
CHECK_DEADLOCK FALSE
