SPECIFICATION Spec
CONSTANTS
  r1 = r1
  r2 = r2
  Pusher = Pusher
  Garbage = 0
  Item <- MCItem
  Reader <- MCReader
  BufferSizes <- MCBufferSizes
  MaxPushes = 3
SYMMETRY ReaderSymmetry
INVARIANTS
  TypeOK
  SlotsInBounds
  NothingInvented
  ExactUnlessRaced
PROPERTIES
  ReadIsComplete
