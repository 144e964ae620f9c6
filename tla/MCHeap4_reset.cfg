SPECIFICATION Spec
CONSTANTS
  Tasks = {t1, t2}
  None = None
  Alignment = 2
  BlockLinkSize = 1
  HeapAddress = 3
  TotalHeapSize = 21
  SizeMax = 63
  Requests <- HeapRequests
INVARIANT
  NullUntilInitialised
