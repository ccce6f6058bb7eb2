SPECIFICATION TypedSpec
CONSTANTS
  Garbage = Garbage
  NoValue = NoValue
  Width = 4
  Item <- MCItem
  BufferSizes <- MCBufferSizes
  MaxLog = 2
INVARIANTS
  AverageIsMean
