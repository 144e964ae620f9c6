SPECIFICATION FairSpec
CONSTANTS
  Tasks = {t1, t2}
  First = t1
  WindowsThreads = {w}
  Isr = isr
  Timer = timer
  Nobody = nobody
  MaxNesting = 2
  Calls = {"create", "remove", "deleteSelf", "end"}
INVARIANTS
  TypeOK
  MutexSound
PROPERTIES
  ImplementsProcessor
  RequestsServed
  SchedulerStops
