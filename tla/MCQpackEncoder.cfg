SPECIFICATION Spec
CHECK_DEADLOCK FALSE
SYMMETRY StreamSymmetry
CONSTANTS
  Names = {"n", "s"}
  Values = {"v", "w", "x"}
  NameLen <- MCNameLen
  ValueLen <- MCValueLen
  Streams = {s1, s2, s3}
  Fields <- MixedFields
  StaticNames = {"s"}
  StaticPairs <- StaticPair
  HardMax = 80
  Capacities = {160, 40}
  BlockedLimits = {1}
  MaxQpackStreams = 2
  MaxDecoderLen = 3
  MaxLines = 2
  MaxRefs = 2
  MaxInserts = 4
  NoSection = NoSection
INVARIANTS
  ReferencedEntriesLive
  BlockedStreamsExact
  UnblockedSectionSafe
  OverCapacityOnlyWhilePinned
PROPERTIES
  BlockedLimitRespected
  InsertFits
