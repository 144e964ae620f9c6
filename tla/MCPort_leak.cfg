SPECIFICATION Spec
CONSTANTS
  Tasks = {t1, t2}
  First = t1
  WindowsThreads = {w}
  Isr = isr
  Timer = timer
  Nobody = nobody
  MaxNesting = 1
  Calls = {"create", "remove", "deleteSelf", "end"}
INVARIANT
  ClosedBeforeSwitch
