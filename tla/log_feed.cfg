SPECIFICATION LiveSpec
CONSTANTS
  Provider = {p, q}
  Recorded <- MCRecorded
  Retracted <- MCRetracted
  Window = 1
  ReconnectBase = 1
  ReconnectCap = 3
  StabilityWindow = 1
  MaxWire = 1
  MaxRaw = 1
INVARIANTS NothingOwedIsLost OnlyRecordedLogs
PROPERTIES Relayed FeedComesBack
