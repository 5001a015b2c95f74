SPECIFICATION Spec
CHECK_DEADLOCK FALSE
SYMMETRY Symmetry
CONSTANTS
  Names = {"n"}
  Values = {"v", "w"}
  NameLen <- MCNameLen
  ValueLen <- MCValueLen
  Streams = {s1, s2}
  DecHardMax = 80
  BlockedStreams = 1
  MaxDbuf = 1
  MaxEncoderLen = 4
  MaxInsertsReceived = 3
  MaxBuffered = 2
  MaxFields = 1
  Instructions <- MCInstructions
  Tokens <- MCTokens
INVARIANTS
  ParkedStreamsMustWait
  ReadingImpliesReceived
  BufferReadFirst
