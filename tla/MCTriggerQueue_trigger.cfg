SPECIFICATION FairSpec
CONSTANTS
  l1 = l1
  e1 = e1
  e2 = e2
  e3 = e3
  e4 = e4
  t1 = t1
  t2 = t2
  Loops = {l1}
  External = {e1, e2, e3, e4}
  Home <- MCHome
  Manual = {e1}
  Malformed = {e2}
  Maintained = {e3}
  ResumeEvents = {e4}
  Cron = {l1}
  Managed = {l1}
  Tasks = {t1}
  NoFile = NoFile
  NoEvent = NoEvent
  AllLoops = AllLoops
  MaxMinute = 1
  MaxDeliveries = 1
  MaxCrashes = 1
INVARIANTS
  TypeOK
  AcceptedIsKept
  StartedOnce
  DoneHadItsRun
PROPERTIES
  PendingIsSettled
  BusyMinuteIsKept
CHECK_DEADLOCK FALSE
