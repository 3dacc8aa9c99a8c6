SPECIFICATION Spec
CONSTANTS
  Apis <- EveryApi
  Obj = {o1, o2}
  NoObj = NoObj
  MaxDocs = 1
  MaxRequests = 3
  MaxHeaders = 6
  MaxChunks = 1
SYMMETRY Symmetry
INVARIANTS OwnHeadersAfterSuccess OutIsOwned SignedByOwnKey
PROPERTIES UsesHttp
CHECK_DEADLOCK FALSE
