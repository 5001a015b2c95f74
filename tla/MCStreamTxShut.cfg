SPECIFICATION Spec
CONSTANTS
  MIN_CHUNK_SIZE = 4
  VecCnt = 2
  MAX_COPY_THRES = 2
  MIN_UNSENT_BYTES = 4
  HeadersLen = 1
  DataLen = 1
  FieldSizes = {1}
  EncSizes = {0}
  Bodies <- MCOneByte
  MaxInfo = 0
  MaxReads = 1
  MaxStalls = 1
PROPERTIES
  ShutIsFinal
