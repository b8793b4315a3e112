SPECIFICATION Spec
CONSTANTS
  r1 = r1
  r2 = r2
  t1 = t1
  t2 = t2
  c1 = c1
  c2 = c2
  c3 = c3
  b1 = b1
  Kept = Kept
  NoRun = NoRun
  NoContext = NoContext
  NoRecord = NoRecord
  NoBudget = NoBudget
  NoBlocker = NoBlocker
  NoEntry = NoEntry
  Runs = {r1}
  Tasks = {t1}
  Contexts = {c1, c2, c3}
  Blockers = {b1}
  MaxTurns = 2
  MaxRetries = 1
  Subtasks = 1
  MaxSameFailure = 2
  RepeatedBlockerThreshold = 2
  Supplements <- MCSupplements
  Ops <- NoOps
  TurnCap = 2
  MaxCrashes = 1
  MaxOverlaps = 0
INVARIANT
  NobodyStuck
CHECK_DEADLOCK FALSE
