SPECIFICATION Spec
VIEW MCView
CONSTANTS
  Kind = "message"
  Length = 8
  TriggerLevel = 1
  HeaderBytes = 2
  ByteValues = 3
  Sizes = {1, 2, 4, 6}
  Waits = {"none", "finite", "forever"}
  IsrEnds = {"receiver"}
  Calls = {"SetTrigger", "Completed", "Reset"}
PROPERTIES
  BytesInOrder
