SPECIFICATION Spec
CONSTANTS
  l1 = l1
  e1 = e1
  e2 = e2
  e3 = e3
  e4 = e4
  t1 = t1
  t2 = t2
  Loops = {l1}
  External = {e1}
  Home <- MCHome
  Manual = {e1}
  Malformed = {}
  Maintained = {}
  ResumeEvents = {}
  Cron = {l1}
  Managed = {}
  Tasks = {t1, t2}
  NoFile = NoFile
  NoEvent = NoEvent
  AllLoops = AllLoops
  MaxMinute = 1
  MaxDeliveries = 1
  MaxCrashes = 0
INVARIANTS
  AcceptedIsKept
CHECK_DEADLOCK FALSE
