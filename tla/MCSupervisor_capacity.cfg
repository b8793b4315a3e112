SPECIFICATION Spec
CONSTANTS
  c1 = c1
  c2 = c2
  c3 = c3
  c4 = c4
  c5 = c5
  s1 = s1
  s2 = s2
  old = old
  NoProcess = NoProcess
  Calls <- MCCalls
  Sessions <- MCSessions
  KindOf <- MCKindOf
  SessionOf <- MCSessionOf
  MaxWorkers = 1
  MaxQueueSize = 0
INVARIANT
  MaxWorkersKept
CHECK_DEADLOCK FALSE
