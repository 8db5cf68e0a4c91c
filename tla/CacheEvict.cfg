CONSTANTS
  Ways = 1
  Sets = 1
  Tags = 2
  Offs = 1
  Vals = 2
  Uses = {"write", "flush", "flush_over_request", "request_over_flush"}
SPECIFICATION Spec
INVARIANTS CleanMatchesMemory FlushDoneCoherent
PROPERTIES IsWordStore
