SPECIFICATION RpcSpec
CONSTANTS
  x1 = x1
  h1 = h1
  c1 = c1
  c2 = c2
  LAST = LAST
  myType = myType
  Modulus = 65536
  Garbage = Garbage
  NoValue = NoValue
  MDCS_COUNTER_NULL = MDCS_COUNTER_NULL
  MDCS_COUNTER_TYPE_NULL = MDCS_COUNTER_TYPE_NULL
  Item <- MCItem
  Name <- OneName
  Hash <- MCHash
  Handle <- MCHandle
  BuiltInType <- MCBuiltInType
  UserType <- NoType
  BufferSizes <- MCBufferSizes
  MaxItems = 2
  MaxInits = 1
  Client <- OneClient
  Size <- MCSize
  ValueSize <- MCValueSize
  MayFail <- OutOfMemory
CHECK_DEADLOCK FALSE
PROPERTIES
  EveryCallReturns
