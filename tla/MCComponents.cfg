CONSTANTS
  MAX_VARINT = 299
  Fields <- MCFields
  Sections <- MCSections
  MaxFields = 5
  PriBufferSize = 2
  MaxClientStreams = 2
  Peers <- MCPeers
  Locals <- MCLocals
  Degr = 2
  Infinity = 13
  InitialBits = 2
  HashBits = 6
  MaxPsl = 3
  Keys = {0, 1, 2, 3, 4, 5, 6, 7, 8, 9, 10, 11}
  HeapKeys = {0, 1, 2, 3, 4, 5, 6}
  Hashes <- MCHashes
  MaxRing = 5
  UintMax = 31
  Seconds = 4
  Bursts = {0, 1, 3, 7, 9}
  Rates = {0, 1, 3, 7, 31}
  MaxTime = 16
  IntBits = 20
  StaticLen = 99
  MaxNameLen = 25
  MaxValueLen = 30
  Messages <- MCMessages
SPECIFICATION Spec
INVARIANTS
  FieldsWellFormed
  ControlAsSent
  ContainersAgree
  RateExact
  WireRoundTrip
CHECK_DEADLOCK FALSE
