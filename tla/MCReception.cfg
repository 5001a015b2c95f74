CONSTANTS
  MAX_VARINT = 29
  BufferSize = 2
  ConnectProtocol = FALSE
  Ids = {1, 2}
  Scripts <- MCScripts
  Sides <- MCSides
  MaxInserts = 2
  MaxBlocked = 1
  MaxShut = 1
  MayReject = {2}
SPECIFICATION Spec
INVARIANTS SameAsWhole CreditConserved MessageShape
CHECK_DEADLOCK FALSE
