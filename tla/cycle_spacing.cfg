SPECIFICATION SpotispySpec
CONSTANTS
  UserVolumes = {u1}
  AdVolumes = {a1}
  Garbage = Garbage
  Tokens = {k1}
  NoTokens = NoTokens
  MaxQueuedStatusMessages = 1
  StartValues <- AnyHeap
CHECK_DEADLOCK FALSE
INVARIANT EveryRequestIsSpaced
CONSTRAINT GuiWaits
