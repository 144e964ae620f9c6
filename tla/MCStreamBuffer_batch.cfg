SPECIFICATION Spec
VIEW MCView
CONSTANTS
  Kind = "batching"
  Length = 5
  TriggerLevel = 2
  HeaderBytes = 1
  ByteValues = 4
  Sizes = {1, 3}
  Waits = {"none", "finite", "forever"}
  IsrEnds = {"sender"}
  Calls = {"Reset", "Notify", "Completed"}
INVARIANTS
  ReceiverWoken
