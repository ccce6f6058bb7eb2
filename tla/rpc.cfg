SPECIFICATION RpcSpec
CONSTANTS
  x1 = x1
  h1 = h1
  c1 = c1
  c2 = c2
  LAST = LAST
  myType = myType
  Modulus = 65536
  Garbage = Garbage
  NoValue = NoValue
  MDCS_COUNTER_NULL = MDCS_COUNTER_NULL
  MDCS_COUNTER_TYPE_NULL = MDCS_COUNTER_TYPE_NULL
  Item <- MCItem
  Name <- ZeroName
  Hash <- MCHash
  Handle <- MCHandle
  BuiltInType <- NoType
  UserType <- MCUserType
  BufferSizes <- MCBufferSizes
  MaxItems = 1
  MaxInits = 1
  Client <- TwoClients
  Size <- MCSize
  ValueSize <- MCUserValueSize
  MayFail <- AnyFailure
CHECK_DEADLOCK FALSE
INVARIANTS
  RpcTypeOK
  FetchIsLinearizable
  AnswerMatchesDelivery
  NoStaleAnswer
PROPERTIES
  AnsweredUnlessItFailed
