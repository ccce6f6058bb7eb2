SPECIFICATION Spec
CONSTANTS
  x1 = x1
  h1 = h1
  h2 = h2
  LAST = LAST
  myType = myType
  Modulus = 65536
  Garbage = Garbage
  MDCS_COUNTER_NULL = MDCS_COUNTER_NULL
  MDCS_COUNTER_TYPE_NULL = MDCS_COUNTER_TYPE_NULL
  Item <- MCItem
  Name <- MCName
  Hash <- MCHash
  Handle <- MCHandle
  BuiltInType <- MCBuiltInType
  UserType <- MCUserType
  BufferSizes <- MCBufferSizes
  MaxItems = 1
  MaxInits = 2
CHECK_DEADLOCK FALSE
INVARIANTS
  UsedTypesSurvive
