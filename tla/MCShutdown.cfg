SPECIFICATION FairSpec
CHECK_DEADLOCK FALSE
CONSTANTS
  Requests = 3
  MaxUpdates = 2
  MaxNotices = 1
  MaxShutdowns = 1
  MaxGaps = 1
  MayCancel = {1}
INVARIANTS
  GoawayIsExact
  NoFailure
  GoneStaysGone
PROPERTIES
  EventuallyDrained
