SPECIFICATION Spec
CONSTANTS
  MIN_CHUNK_SIZE = 4
  VecCnt = 2
  MAX_COPY_THRES = 2
  MIN_UNSENT_BYTES = 4
  HeadersLen = 1
  DataLen = 1
  FieldSizes = {1, 3}
  EncSizes = {0}
  Bodies <- MCBodies
  MaxInfo = 1
  MaxReads = 1
  MaxStalls = 1
INVARIANTS
  OffsetsAgree
  ChunksLive
  WritableIsScheduled
  FinExactlyOnce
PROPERTIES
  RequestIsByteStream
