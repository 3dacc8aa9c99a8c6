SPECIFICATION Spec
CONSTANTS
  Header = {h1, h2}
  Obj = {o1, o2, o3}
  NoObj = NoObj
  MaxDocs = 2
  MaxRequests = 3
  MaxHeaders = 2
  MaxChunks = 3
SYMMETRY Symmetry
INVARIANTS TypeOK OwnersCounted NoLeak OneResponse FreshDocument
PROPERTIES ImplementsExchange
CHECK_DEADLOCK FALSE
