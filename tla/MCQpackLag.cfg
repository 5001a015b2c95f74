SPECIFICATION Spec
CHECK_DEADLOCK FALSE
CONSTANTS
  Names = {"n"}
  Values = {v, w, x}
  NameLen <- MCNameLen
  ValueLen <- MCValueLen
  Streams = {s1, s2}
  Fields <- OneNameFields
  StaticNames = {"s"}
  StaticPairs = {}
  HardMax = 80
  Capacities = {}
  MaxQpackStreams = 10
  MaxDecoderLen = 100
  MaxLines = 1
  MaxRefs = 2
  MaxInserts = 4
  NoSection = NoSection
  DecHardMax = 80
  BlockedStreams = 1
  MaxDbuf = 100
  MaxEncoderLen = 100
  MaxSections = 2
  TotalSections = 4
  MaxLag = 100
  MaxCapUpdates = 0
  MayClose = {s1}
INVARIANTS
  SectionsDecodable
