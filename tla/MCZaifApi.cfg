SPECIFICATION Spec
CONSTANTS
  Apis <- OneOfEach
  Obj = {o1, o2}
  NoObj = NoObj
  NoFields = NoFields
  MaxDocs = 1
  MaxRequests = 2
  MaxHeaders = 2
  MaxChunks = 1
SYMMETRY Symmetry
INVARIANTS BodyIsSigned OwnPairAfterSuccess FieldsFreed
PROPERTIES UsesHttp
CHECK_DEADLOCK FALSE
