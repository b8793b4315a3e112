SPECIFICATION FairSpec
CONSTANTS
  r1 = r1
  r2 = r2
  t1 = t1
  t2 = t2
  c1 = c1
  c2 = c2
  c3 = c3
  b1 = b1
  Kept = Kept
  NoRun = NoRun
  NoContext = NoContext
  NoRecord = NoRecord
  NoBudget = NoBudget
  NoBlocker = NoBlocker
  NoEntry = NoEntry
  Runs = {r1, r2}
  Tasks = {t1}
  Contexts = {c1, c2}
  Blockers = {b1}
  MaxTurns = 2
  MaxRetries = 0
  Subtasks = 2
  MaxSameFailure = 2
  RepeatedBlockerThreshold = 2
  Supplements <- MCSupplements
  Ops <- SerialOps
  TurnCap = 2
  MaxCrashes = 0
  MaxOverlaps = 0
INVARIANTS
  RetriesKept
  SubtaskIsNext
PROPERTIES
  FollowsRunStates
  RunsRest
CHECK_DEADLOCK FALSE
