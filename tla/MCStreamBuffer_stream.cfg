SPECIFICATION FairSpec
CONSTANTS
  Kind = "stream"
  Length = 4
  TriggerLevel = 1
  HeaderBytes = 1
  ByteValues = 2
  Sizes = {1, 3}
  Waits = {"finite", "forever"}
  IsrEnds = {}
  Calls = {"Notify"}
INVARIANTS
  TypeOK
  SenderWoken
  WaitersAreWaiting
  NeverBothBlocked
PROPERTIES
  BytesInOrder
  EndsProceed
