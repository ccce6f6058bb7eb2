SPECIFICATION Spec
CONSTANTS
  x1 = x1
  x2 = x2
  Garbage = Garbage
  NoValue = NoValue
  Item <- MCItem
  BufferSizes <- MCBufferSizes
  MaxLog = 3
PROPERTIES
  ReadsSinceReset
