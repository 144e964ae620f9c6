SPECIFICATION FairSpec
CONSTANTS
  t1 = t1  t2 = t2
  Idle = idle  NULL = NULL
  Task = {t1, t2, idle}
  MaxPriority = 2
  MaxDelay = 2
  InitialTick = 1
  CreatePriority <- MCPriority
  Calls <- TimeCalls
  MaxPendedTicks = 1
  MaxNotified = 1
INVARIANTS
  TypeOK
  WakeUpsCovered
PROPERTIES
  SleepsExactly
  DelayExpires
  PendingServed
