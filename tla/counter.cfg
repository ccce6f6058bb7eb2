SPECIFICATION TypedSpec
CONSTANTS
  Garbage = Garbage
  NoValue = NoValue
  Width = 4
  Item <- MCItem
  BufferSizes <- MCBufferSizes
  MaxLog = 3
INVARIANTS
  TypeOK
  BufferTransparent
  TypedTypeOK
  LastIsLast
  StatsAreExact
  SecondMomentIsExact
  RangeIsExact
PROPERTIES
  ReadItemsDoNotSurvive
  ReadIsComplete
  Promise
