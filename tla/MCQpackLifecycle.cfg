SPECIFICATION Spec
CHECK_DEADLOCK FALSE
SYMMETRY ValueSymmetry
CONSTANTS
  Names = {"n"}
  Values = {v, w}
  NameLen <- MCNameLen
  ValueLen <- MCValueLen
  Streams = {s1, s2}
  Fields <- OneNameFields
  StaticNames = {"s"}
  StaticPairs = {}
  HardMax = 80
  Capacities = {40, 80}
  MaxQpackStreams = 10
  MaxDecoderLen = 100
  MaxLines = 1
  MaxRefs = 1
  MaxInserts = 2
  NoSection = NoSection
  DecHardMax = 80
  BlockedStreams = 1
  MaxDbuf = 100
  MaxEncoderLen = 100
  MaxSections = 2
  TotalSections = 3
  MaxLag = 2
  MaxCapUpdates = 2
  MayClose = {s1}
INVARIANTS
  DecoderKeepsReferenced
  ParkedStreamsCounted
