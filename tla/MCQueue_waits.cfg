SPECIFICATION Spec
CONSTANTS
  t1 = t1
  t2 = t2
  Tasks = {t1, t2}
  Nobody = nobody
  Lengths = {1, 2}
  MaxItems = 0
  TickValues = 4
  Calls <- AllCalls
  Ops = {"abort", "reset"}
  IsrOps = {"give", "send", "overwrite", "receive"}
  MaxAge = 4
VIEW MCView
INVARIANTS
  TypeOK
  WakeUpsOwed
  NeverEarly
  NeverLate
CHECK_DEADLOCK FALSE
