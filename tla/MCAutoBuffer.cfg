SPECIFICATION Spec
CONSTANTS
  Byte = {a, b}
  Junk = Junk
  Alloc = 3
  PathMax = 3
  MaxPush = 2
  MaxSize = 7
INVARIANTS TypeOK InBounds EmptyAtZero
PROPERTIES ImplementsQueue
