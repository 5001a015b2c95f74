SPECIFICATION FairSpec
CHECK_DEADLOCK FALSE
CONSTANTS
  Names = {"n", "s"}
  Values = {"v", "w"}
  NameLen <- MCNameLen
  ValueLen <- MCValueLen
  Streams = {s1, s2}
  Fields <- MixedFields
  StaticNames = {"s"}
  StaticPairs <- StaticPair
  HardMax = 80
  Capacities = {}
  MaxQpackStreams = 10
  MaxDecoderLen = 100
  MaxLines = 2
  MaxRefs = 2
  MaxInserts = 4
  NoSection = NoSection
  DecHardMax = 80
  BlockedStreams = 1
  MaxDbuf = 100
  MaxEncoderLen = 100
  MaxSections = 1
  TotalSections = 2
  MaxLag = 100
  MaxCapUpdates = 0
  MayClose = {}
INVARIANTS
  NoConnectionError
  TablesAgree
  CountsOrdered
PROPERTIES
  DeliversHeaders
  EventuallyDelivered
  EventuallyAcknowledged
