SPECIFICATION FairSpec
CONSTANTS
  MIN_CHUNK_SIZE = 4
  VecCnt = 1
  MAX_COPY_THRES = 2
  MIN_UNSENT_BYTES = 4
  HeadersLen = 1
  DataLen = 1
  FieldSizes = {1}
  EncSizes = {1, 3}
  Bodies <- MCOneByte
  MaxInfo = 0
  MaxReads = 0
  MaxStalls = 1
PROPERTIES
  EventuallyFinished
