SPECIFICATION Spec
CONSTANTS
  Apis <- OneOfEach
  Obj = {o1, o2}
  NoObj = NoObj
  MaxDocs = 1
  MaxRequests = 2
  MaxHeaders = 4
  MaxChunks = 1
INVARIANTS LeastPrivilege
CHECK_DEADLOCK FALSE
