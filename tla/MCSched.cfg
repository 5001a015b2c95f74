SPECIFICATION FairSpec
CHECK_DEADLOCK FALSE
CONSTANTS
  Streams = {0, 4}
  Urgencies = {0, 1}
  DefaultPri <- Low
  Priorities <- MCPriorities
  Pieces = {1}
  MIN_WRITELEN = 1
  MIN_UNSENT_BYTES = 1
  CycleMod = 4
  MAX_CYCLE_GAP = 1
  MaxStalls = 1
  MaxChanges = 2
INVARIANTS
  PriorityAsAsked
  CyclesComparable
  HeapsAgree
  ReadyIsScheduled
PROPERTIES
  NoStarvation
